---- MODULE Spec2Model ----
(***************************************************************************)
(* Model of the interrupt-aware deadlock detector of rtool                 *)
(* (src/src/analysis/deadlock).                                            *)
(*                                                                         *)
(* MIR bodies are sequences of basic blocks; statements have no effect on  *)
(* any analysis modelled here, so a block is its terminator and a Location *)
(* is the index of its block (bb0 is block 0).  A HashMap is a function    *)
(* whose DOMAIN is its key set, so a missing key and a key with a Bottom   *)
(* or empty value stay distinguishable, as they are for HashMap equality.  *)
(***************************************************************************)
EXTENDS Integers, Sequences, FiniteSets, TLC

VARIABLES
    prog,                \* the analysed crate (tcx)
    pc,                  \* position inside the running driver
    stage_log,           \* the stages that have returned, in order
    warnings,            \* the warnings the stages have logged
    program_isr_info,    \* ProgramIsrInfo
    global_lockmap,      \* ProgramLockInfo.lockmap
    lat_in,              \* arguments given to a lattice operation or transfer function
    lat_out,             \* what the operation returned for them
    propagated,          \* per callee and Place context, the join of the block-entry
                         \* locksets its call site has sent to the worklist
    enable_interrupt_apis,
    disable_interrupt_apis,
    worklist,            \* LockSetAnalyzer::run worklist
    iteration_limit,     \* LockSetAnalyzer::run fuse
    analyzed_functions,  \* LockSetAnalyzer.analyzed_functions
    program_lock_set,    \* result of LockSetAnalyzer::run
    ldg_todo,            \* functions LDGConstructor::run still has to visit
    normal_edges,        \* pairs of the current function not yet inserted
    intr_edges,          \* interrupt pairs of the current function not yet inserted
    graph,               \* LockDependencyGraph
    graph_calls,         \* the calls of insert_normal_edge and insert_interrupt_edge
                         \* made on a graph that is driven on its own
    reports              \* result of self_cycle_node, once the reporter ran

vars == <<prog, pc, stage_log, warnings, program_isr_info, global_lockmap, propagated,
         graph_calls,
         lat_in, lat_out, enable_interrupt_apis, disable_interrupt_apis,
          worklist, iteration_limit, analyzed_functions, program_lock_set,
          ldg_todo, normal_edges, intr_edges, graph, reports>>

----------------------------------------------------------------------------
(* Generic helpers *)

EmptyMap == [x \in {} |-> x]

MapPut(m, k, v) == [x \in (DOMAIN m) \cup {k} |-> IF x = k THEN v ELSE m[x]]

SeqToSet(s) == {s[i] : i \in 1..Len(s)}

RECURSIVE Reverse(_)
Reverse(s) == IF s = <<>> THEN <<>> ELSE Append(Reverse(Tail(s)), Head(s))

\* All orders in which a hash-based collection can be iterated.
IterationOrders(S) ==
    {s \in [1..Cardinality(S) -> S] : \A x \in S : \E i \in 1..Cardinality(S) : s[i] = x}

----------------------------------------------------------------------------
(* MIR terminators *)

Call(callee, dest, target) ==
    [kind |-> "Call", callee |-> callee, local |-> dest, targets |-> <<target>>]
Drop(local, target) ==
    [kind |-> "Drop", callee |-> "-", local |-> local, targets |-> <<target>>]
SwitchInt(targets) ==
    [kind |-> "SwitchInt", callee |-> "-", local |-> 0, targets |-> targets]
Goto(target) ==
    [kind |-> "Goto", callee |-> "-", local |-> 0, targets |-> <<target>>]
Return ==
    [kind |-> "Return", callee |-> "-", local |-> 0, targets |-> <<>>]

\* func.const_fn_def() is None for an indirect call
Unresolved == "?"

----------------------------------------------------------------------------
(* The analysed crates.  funcs is tcx.hir_body_owners() restricted to       *)
(* BodyOwnerKind::Fn, in order; body is tcx.optimized_mir; lockmap is the   *)
(* GlobalLockMap handed to LockSetAnalyzer::new; isr_entries, enable and    *)
(* disable are the IsrEntry and IntrApi tags.                               *)

IsrFooBody == <<Call("lock", 1, 1), Drop(1, 2), Return>>

Program(p) ==
    CASE p = "scenario1" ->
        [funcs |-> <<"t1", "isr_foo", "work", "lock">>,
         body |-> [t1 |-> <<Call("lock", 1, 1), Call("work", 2, 2), Drop(1, 3), Return>>,
                   isr_foo |-> IsrFooBody, work |-> <<Return>>, lock |-> <<Return>>],
         lockmap |-> [t1 |-> (1 :> "L"), isr_foo |-> (1 :> "L"),
                      work |-> EmptyMap, lock |-> EmptyMap],
         isr_entries |-> {"isr_foo"}, enable |-> {"irq_enable"}, disable |-> {"irq_disable"}]
      [] p = "scenario2" ->
        [funcs |-> <<"t1", "isr_foo", "work", "lock", "irq_disable">>,
         body |-> [t1 |-> <<Call("irq_disable", 2, 1), Call("lock", 1, 2),
                            Call("work", 3, 3), Drop(1, 4), Return>>,
                   isr_foo |-> IsrFooBody, work |-> <<Return>>, lock |-> <<Return>>,
                   irq_disable |-> <<Return>>],
         lockmap |-> [t1 |-> (1 :> "L"), isr_foo |-> (1 :> "L"), work |-> EmptyMap,
                      lock |-> EmptyMap, irq_disable |-> EmptyMap],
         isr_entries |-> {"isr_foo"}, enable |-> {"irq_enable"}, disable |-> {"irq_disable"}]
      [] p = "scenario3" ->
        [funcs |-> <<"a", "b", "lock">>,
         body |-> [a |-> <<Call("lock", 1, 1), Call("b", 2, 2), Drop(1, 3), Return>>,
                   b |-> <<Call("lock", 1, 1), Drop(1, 2), Return>>,
                   lock |-> <<Return>>],
         lockmap |-> [a |-> (1 :> "L"), b |-> (1 :> "M"), lock |-> EmptyMap],
         isr_entries |-> {}, enable |-> {"irq_enable"}, disable |-> {"irq_disable"}]
      [] p = "scenario4" ->
        [funcs |-> <<"c", "isr_foo", "lock">>,
         body |-> [c |-> <<Call("lock", 1, 1), Drop(1, 2), Call("lock", 2, 3),
                           Drop(2, 4), Return>>,
                   isr_foo |-> IsrFooBody, lock |-> <<Return>>],
         lockmap |-> [c |-> (1 :> "L" @@ 2 :> "M"), isr_foo |-> (1 :> "L"),
                      lock |-> EmptyMap],
         isr_entries |-> {"isr_foo"}, enable |-> {"irq_enable"}, disable |-> {"irq_disable"}]
      [] p = "scenario6" ->
        [funcs |-> <<"d", "isr_foo", "lock">>,
         body |-> [d |-> <<Call("lock", 1, 1), Call("lock", 2, 2), Drop(2, 3),
                           Drop(1, 4), Return>>,
                   isr_foo |-> IsrFooBody, lock |-> <<Return>>],
         lockmap |-> [d |-> (1 :> "L" @@ 2 :> "M"), isr_foo |-> (1 :> "L"),
                      lock |-> EmptyMap],
         isr_entries |-> {"isr_foo"}, enable |-> {"irq_enable"}, disable |-> {"irq_disable"}]
      \* r takes L and calls itself at two sites while it holds L
      [] p = "scenario5" ->
        [funcs |-> <<"r">>,
         body |-> [r |-> <<Call("ext_lock", 1, 1), Call("r", 2, 2), Call("r", 3, 3),
                           Drop(1, 4), Return>>],
         lockmap |-> [r |-> (1 :> "L")],
         isr_entries |-> {}, enable |-> {"irq_enable"}, disable |-> {"irq_disable"}]
      \* h is called from a with L held and from b with M held
      [] p = "two_callers" ->
        [funcs |-> <<"a", "b", "h">>,
         body |-> [a |-> <<Call("ext_lock", 1, 1), Call("h", 2, 2), Drop(1, 3), Return>>,
                   b |-> <<Call("ext_lock", 1, 1), Call("h", 2, 2), Drop(1, 3), Return>>,
                   h |-> <<Return>>],
         lockmap |-> [a |-> (1 :> "L"), b |-> (1 :> "M"), h |-> EmptyMap],
         isr_entries |-> {}, enable |-> {"irq_enable"}, disable |-> {"irq_disable"}]
      \* an ISR entry that takes L in a helper it calls, and a task that takes L
      [] p = "isr_helper" ->
        [funcs |-> <<"t1", "isr_foo", "helper">>,
         body |-> [t1 |-> <<Call("ext_lock", 1, 1), Drop(1, 2), Return>>,
                   isr_foo |-> <<Call("helper", 1, 1), Return>>,
                   helper |-> <<Call("ext_lock", 1, 1), Drop(1, 2), Return>>],
         lockmap |-> [t1 |-> (1 :> "L"), isr_foo |-> EmptyMap, helper |-> (1 :> "L")],
         isr_entries |-> {"isr_foo"}, enable |-> {"irq_enable"}, disable |-> {"irq_disable"}]
      \* an ISR entry that nests two locks and re-enables interrupts in between;
      \* the lock API lives in another crate (no MIR, no lockmap entry)
      [] p = "nested_isr" ->
        [funcs |-> <<"isr_foo", "irq_enable">>,
         body |-> [isr_foo |-> <<Call("ext_lock", 1, 1), Call("irq_enable", 3, 2),
                                 Call("ext_lock", 2, 3), Drop(2, 4), Drop(1, 5), Return>>,
                   irq_enable |-> <<Return>>],
         lockmap |-> [isr_foo |-> (1 :> "L" @@ 2 :> "M"), irq_enable |-> EmptyMap],
         isr_entries |-> {"isr_foo"}, enable |-> {"irq_enable"}, disable |-> {"irq_disable"}]
      \* a branch that takes L on one arm only, two call sites of the same callee,
      \* an indirect call, and a callee that disables interrupts before locking
      [] p = "branch" ->
        [funcs |-> <<"f", "g", "isr_foo">>,
         body |-> [f |-> <<SwitchInt(<<1, 2>>), Call("ext_lock", 1, 3), Call("g", 3, 3),
                           Call("g", 4, 4), Call(Unresolved, 5, 5), Drop(1, 6), Return>>,
                   g |-> <<Call("irq_disable", 2, 1), Call("ext_lock", 1, 2), Drop(1, 3),
                           Return>>,
                   isr_foo |-> <<Call("ext_lock", 1, 1), Drop(1, 2), Return>>],
         lockmap |-> [f |-> (1 :> "L"), g |-> (1 :> "M"), isr_foo |-> (1 :> "M")],
         isr_entries |-> {"isr_foo"}, enable |-> {"irq_enable"}, disable |-> {"irq_disable"}]

Programs == {"scenario1", "scenario2", "scenario3", "scenario4", "scenario5",
             "scenario6", "two_callers", "isr_helper", "nested_isr", "branch"}

Funcs(p) == SeqToSet(Program(p).funcs)

\* tcx.is_mir_available(def_id)
is_mir_available(p, f) == f \in Funcs(p)

\* body.basic_blocks of tcx.optimized_mir(f)
Blocks(p, f) == 0 .. (Len(Program(p).body[f]) - 1)

\* the terminator of block b of f
Term(p, f, b) == Program(p).body[f][b + 1]

\* func.const_fn_def(): the callee of a call terminator, when it is resolved
const_fn_def(t) == IF t.kind = "Call" /\ t.callee # Unresolved THEN {t.callee} ELSE {}

----------------------------------------------------------------------------
(* types.rs: locks, lock sets, call sites, contexts *)

CallSite(f, loc) == [caller_def_id |-> f, location |-> loc]

LockSite(lock, site) == [lock |-> lock, site |-> site]

NoSite == CallSite("-", 0)

\* CallContext::Default and CallContext::Place(cs)
Default == [tag |-> "Default", site |-> NoSite]
Place(cs) == [tag |-> "Place", site |-> cs]

\* LockState::join with the receiver winning whenever it is not Bottom
LockStateJoinKeepsSelf(self, other) ==
    IF self = "Bottom" THEN other ELSE self

\* LockState::join, as the value left in self
LockStateJoin(self, other) ==
    CASE self = "Bottom" -> other
      [] other = "Bottom" -> self
      [] self = "MayHold" -> "MayHold"
      [] other = "MayHold" -> "MayHold"
      [] OTHER -> "MustNotHold"

\* LockSet::new
NewLockSet == [lock_states |-> EmptyMap, lock_sites |-> EmptyMap]

\* LockSet::merge that keeps the receiver's sites of a lock both sets know
MergeKeepsSites(self, other) ==
    [lock_states |->
        [l \in (DOMAIN self.lock_states) \cup (DOMAIN other.lock_states) |->
            IF l \notin DOMAIN other.lock_states THEN self.lock_states[l]
            ELSE IF l \in DOMAIN self.lock_states
                 THEN LockStateJoin(self.lock_states[l], other.lock_states[l])
                 ELSE other.lock_states[l]],
     lock_sites |->
        [l \in (DOMAIN self.lock_sites) \cup (DOMAIN other.lock_sites) |->
            IF l \in DOMAIN self.lock_sites THEN self.lock_sites[l]
            ELSE other.lock_sites[l]]]

\* LockSet::merge, as the value left in self
Merge(self, other) ==
    [lock_states |->
        [l \in (DOMAIN self.lock_states) \cup (DOMAIN other.lock_states) |->
            IF l \notin DOMAIN other.lock_states THEN self.lock_states[l]
            ELSE IF l \in DOMAIN self.lock_states
                 THEN LockStateJoin(self.lock_states[l], other.lock_states[l])
                 ELSE other.lock_states[l]],
     lock_sites |->
        [l \in (DOMAIN self.lock_sites) \cup (DOMAIN other.lock_sites) |->
            IF l \notin DOMAIN other.lock_sites THEN self.lock_sites[l]
            ELSE IF l \in DOMAIN self.lock_sites
                 THEN self.lock_sites[l] \cup other.lock_sites[l]
                 ELSE other.lock_sites[l]]]

\* the boolean LockSet::merge returns
MergeChanged(self, other) == Merge(self, other) # self

\* LockSet::update_lock_state
\* update_lock_state that puts the state on every lock of the set
update_lock_state_every_lock(self, lock_id, state) ==
    [self EXCEPT !.lock_states =
        [l \in DOMAIN self.lock_states \cup {lock_id} |-> state]]

update_lock_state(self, lock_id, state) ==
    [self EXCEPT !.lock_states = MapPut(self.lock_states, lock_id, state)]

\* LockSet::add_callsite
add_callsite(self, lock_id, callsite) ==
    [self EXCEPT !.lock_sites =
        IF lock_id \in DOMAIN self.lock_sites
        THEN MapPut(self.lock_sites, lock_id, self.lock_sites[lock_id] \cup {callsite})
        ELSE MapPut(self.lock_sites, lock_id, {callsite})]

\* FunctionLockSet built by FuncLockSetAnalyzer::new when there is no cached one
NewFunctionLockSet(func_def_id, entry_lockset) ==
    [func_def_id |-> func_def_id,
     entry_lockset |-> entry_lockset,
     exit_lockset |-> EmptyMap,
     pre_bb_locksets |-> EmptyMap,
     lock_operations |-> {}]

----------------------------------------------------------------------------
(* rustc_mir_dataflow: traversal::reverse_postorder and the forward engine  *)

Successors(p, f, b) == Term(p, f, b).targets

RECURSIVE PostorderFrom(_, _, _, _)
RECURSIVE PostorderOver(_, _, _, _)
\* depth-first walk from block b; acc = [visited, order]
PostorderFrom(p, f, b, acc) ==
    IF b \in acc.visited THEN acc
    ELSE LET a1 == PostorderOver(p, f, Successors(p, f, b),
                                 [acc EXCEPT !.visited = @ \cup {b}])
         IN  [a1 EXCEPT !.order = Append(@, b)]
PostorderOver(p, f, succs, acc) ==
    IF succs = <<>> THEN acc
    ELSE PostorderOver(p, f, Tail(succs), PostorderFrom(p, f, Head(succs), acc))

ReversePostorder(p, f) ==
    Reverse(PostorderFrom(p, f, 0, [visited |-> {}, order |-> <<>>]).order)

----------------------------------------------------------------------------
(* lockset_analyzer.rs: FuncLockSetAnalyzerInner *)

\* an = [p, func_def_id, call_context, lockmap, entry_lockset, analyzed_functions]
\* fx = [func_lock_info, callsites] is what the transfer function mutates

\* initialize_start_block
initialize_start_block(an) ==
    IF an.call_context \in DOMAIN an.entry_lockset
    THEN an.entry_lockset[an.call_context]
    ELSE NewLockSet

\* the exit lockset of callee merged at a call that is no lock acquisition
\* the callee's exit lockset with the exits of all its contexts joined
CalleeExitLocksetAllContexts(an, callee, location) ==
    IF callee \in DOMAIN an.analyzed_functions
    THEN LET exits == an.analyzed_functions[callee].exit_lockset
             RECURSIVE JoinOf(_)
             JoinOf(C) == IF C = {} THEN NewLockSet
                          ELSE LET c == CHOOSE c \in C : TRUE
                               IN  Merge(JoinOf(C \ {c}), exits[c])
         IN  JoinOf(DOMAIN exits)
    ELSE NewLockSet

CalleeExitLockset(an, callee, location) ==
    IF callee \in DOMAIN an.analyzed_functions
    THEN LET inner_context == Place(CallSite(an.func_def_id, location))
             exits == an.analyzed_functions[callee].exit_lockset
         IN  IF inner_context \in DOMAIN exits THEN exits[inner_context] ELSE NewLockSet
    ELSE NewLockSet

\* the Call arm with an acquisition that releases a lock already held
CallEffectReleasesHeld(an, fx, state, t, location) ==
    IF const_fn_def(t) = {} THEN [state |-> state, fx |-> fx]
    ELSE LET callee == t.callee
             fx1 == [fx EXCEPT !.callsites = MapPut(@, location, callee)]
         IN  IF t.local \in DOMAIN an.lockmap
             THEN LET lock == an.lockmap[t.local]
                      site == CallSite(an.func_def_id, location)
                      held == lock \in DOMAIN state.lock_states
                                /\ state.lock_states[lock] = "MayHold"
                  IN  [state |-> add_callsite(
                                    update_lock_state(state, lock,
                                        IF held THEN "MustNotHold" ELSE "MayHold"),
                                    lock, site),
                       fx |-> fx1]
             ELSE [state |-> Merge(state, CalleeExitLockset(an, callee, location)),
                   fx |-> fx1]

\* TerminatorKind::Call arm
CallEffect(an, fx, state, t, location) ==
    IF const_fn_def(t) = {} THEN [state |-> state, fx |-> fx]
    ELSE LET callee == t.callee
             fx1 == [fx EXCEPT !.callsites = MapPut(@, location, callee)]
         IN  IF t.local \in DOMAIN an.lockmap
             THEN LET lock == an.lockmap[t.local]
                      site == CallSite(an.func_def_id, location)
                  IN  [state |-> add_callsite(update_lock_state(state, lock, "MayHold"),
                                              lock, site),
                       fx |-> [fx1 EXCEPT !.func_lock_info.lock_operations =
                                              @ \cup {LockSite(lock, site)}]]
             ELSE [state |-> Merge(state, CalleeExitLockset(an, callee, location)),
                   fx |-> fx1]

\* the Drop arm without the release: the state of the lock and its sites stay
DropEffectKeepsLock(an, fx, state, t) ==
    [state |-> state, fx |-> fx]

\* TerminatorKind::Drop arm
DropEffect(an, fx, state, t) ==
    IF t.local \in DOMAIN an.lockmap
    THEN LET lock == an.lockmap[t.local]
             s1 == update_lock_state(state, lock, "MustNotHold")
         IN  [state |-> IF lock \in DOMAIN s1.lock_sites
                        THEN [s1 EXCEPT !.lock_sites[lock] = {}]
                        ELSE s1,
              fx |-> fx]
    ELSE [state |-> state, fx |-> fx]

\* TerminatorKind::Return arm
ReturnEffect(an, fx, state) ==
    LET exits == fx.func_lock_info.exit_lockset
        ctx == an.call_context
    IN  [state |-> state,
         fx |-> [fx EXCEPT !.func_lock_info.exit_lockset =
                    IF ctx \in DOMAIN exits
                    THEN MapPut(exits, ctx, Merge(exits[ctx], state))
                    ELSE MapPut(exits, ctx, state)]]

\* apply_primary_terminator_effect with a Drop arm that sets the state of
\* the lock and leaves its acquisition sites in place
apply_primary_terminator_effect_sites_kept(an, fx, state, t, location) ==
    CASE t.kind = "Call" -> CallEffect(an, fx, state, t, location)
      [] t.kind = "Drop" ->
            [state |-> IF t.local \in DOMAIN an.lockmap
                       THEN update_lock_state(state, an.lockmap[t.local], "MustNotHold")
                       ELSE state,
             fx |-> fx]
      [] t.kind = "Return" -> ReturnEffect(an, fx, state)
      [] OTHER -> [state |-> state, fx |-> fx]

\* apply_primary_terminator_effect
apply_primary_terminator_effect(an, fx, state, t, location) ==
    CASE t.kind = "Call" -> CallEffect(an, fx, state, t, location)
      [] t.kind = "Drop" -> DropEffect(an, fx, state, t)
      [] t.kind = "Return" -> ReturnEffect(an, fx, state)
      [] OTHER -> [state |-> state, fx |-> fx]

RECURSIVE PropagateLockSet(_, _, _, _)
\* join the block-end state into the entry of every successor; a successor
\* whose entry changed is put on the dirty queue unless it is already there
PropagateLockSet(entry_sets, queue, targets, state) ==
    IF targets = <<>> THEN [entry_sets |-> entry_sets, queue |-> queue]
    ELSE LET t == Head(targets)
             changed == MergeChanged(entry_sets[t], state)
         IN  PropagateLockSet(
                 [entry_sets EXCEPT ![t] = Merge(@, state)],
                 IF changed /\ t \notin SeqToSet(queue) THEN Append(queue, t) ELSE queue,
                 Tail(targets), state)

RECURSIVE IterateLockSet(_, _)
\* st = [entry_sets, queue, fx]
IterateLockSet(an, st) ==
    IF st.queue = <<>> THEN st
    ELSE LET bb == Head(st.queue)
             eff == apply_primary_terminator_effect(an, st.fx, st.entry_sets[bb],
                        Term(an.p, an.func_def_id, bb), bb)
             pr == PropagateLockSet(st.entry_sets, Tail(st.queue),
                        Successors(an.p, an.func_def_id, bb), eff.state)
         IN  IterateLockSet(an, [entry_sets |-> pr.entry_sets, queue |-> pr.queue,
                                 fx |-> eff.fx])

\* iterate_to_fixpoint of FuncLockSetAnalyzerInner over the body of an.func_def_id
iterate_to_fixpoint(an, func_lock_info) ==
    IterateLockSet(an,
        [entry_sets |-> [b \in Blocks(an.p, an.func_def_id) |->
                            IF b = 0 THEN initialize_start_block(an) ELSE NewLockSet],
         queue |-> ReversePostorder(an.p, an.func_def_id),
         fx |-> [func_lock_info |-> func_lock_info, callsites |-> EmptyMap]])

----------------------------------------------------------------------------
(* lockset_analyzer.rs: FuncLockSetAnalyzer *)

\* FuncLockSetAnalyzer::new: the summary the analysis starts from
\* the summary the analysis starts from when it never takes the cached one
InitialFuncLockInfoFresh(func_def_id, entry_lockset, analyzed) ==
    NewFunctionLockSet(func_def_id, entry_lockset)

InitialFuncLockInfo(func_def_id, entry_lockset, analyzed) ==
    IF func_def_id \in DOMAIN analyzed
    THEN analyzed[func_def_id]
    ELSE NewFunctionLockSet(func_def_id, entry_lockset)

\* FuncLockSetAnalyzer::run up to the cursor: the fixed point, with
\* pre_bb_locksets filled from the block-entry states of every block
\* run with pre_bb_locksets collected at the blocks of the call sites only
FuncLockSetRunCallBlocks(an) ==
    LET st == iterate_to_fixpoint(an,
                  InitialFuncLockInfo(an.func_def_id, an.entry_lockset,
                                      an.analyzed_functions))
    IN  [func_lock_info |-> [st.fx.func_lock_info EXCEPT
                                !.pre_bb_locksets =
                                    [b \in DOMAIN st.fx.callsites |-> st.entry_sets[b]]],
         callsites |-> st.fx.callsites,
         entry_sets |-> st.entry_sets]

FuncLockSetRun(an) ==
    LET st == iterate_to_fixpoint(an,
                  InitialFuncLockInfo(an.func_def_id, an.entry_lockset,
                                      an.analyzed_functions))
    IN  [func_lock_info |-> [st.fx.func_lock_info EXCEPT
                                !.pre_bb_locksets = st.entry_sets],
         callsites |-> st.fx.callsites,
         entry_sets |-> st.entry_sets]

\* the cached entry lockset a call site's block-entry lockset is compared with
OldEntrySet(an, callee) ==
    IF callee \in DOMAIN an.analyzed_functions
    THEN LET entries == an.analyzed_functions[callee].entry_lockset
         IN  IF an.call_context \in DOMAIN entries
             THEN entries[an.call_context] ELSE NewLockSet
    ELSE NewLockSet

\* call sites whose block-entry lockset differs from the cached callee entry
ChangedCallSites(an, res) ==
    {loc \in DOMAIN res.callsites :
        res.entry_sets[loc] # OldEntrySet(an, res.callsites[loc])}

\* influenced_callees with the call site of the context placed in the callee
InfluencedCalleesSiteInCallee(an, res) ==
    LET changed == ChangedCallSites(an, res)
        callees == {res.callsites[loc] : loc \in changed}
    IN  {[callee \in callees |->
            [context |-> Place(CallSite(callee, pick[callee])),
             lockset |-> res.entry_sets[pick[callee]]]] :
         pick \in {m \in [callees -> changed] :
                      \A c \in callees : res.callsites[m[c]] = c}}

\* FuncLockSetAnalyzer::influenced_callees: the map is keyed by callee, so of
\* several changed call sites of one callee the last one iterated is kept
InfluencedCallees(an, res) ==
    LET changed == ChangedCallSites(an, res)
        callees == {res.callsites[loc] : loc \in changed}
    IN  {[callee \in callees |->
            [context |-> Place(CallSite(an.func_def_id, pick[callee])),
             lockset |-> res.entry_sets[pick[callee]]]] :
         pick \in {m \in [callees -> changed] :
                      \A c \in callees : res.callsites[m[c]] = c}}

\* FuncLockSetAnalyzer::exit_changed
exit_changed(an, res) ==
    IF an.func_def_id \in DOMAIN an.analyzed_functions
    THEN an.analyzed_functions[an.func_def_id].exit_lockset
            # res.func_lock_info.exit_lockset
    ELSE TRUE

----------------------------------------------------------------------------
(* lockset_analyzer.rs: LockSetAnalyzer::run *)

WorkItem(func, ctx, lockset) == [func |-> func, context |-> ctx, lockset |-> lockset]

\* the fuse: iterations allowed per seeded function
FuseFactor == 10

\* the entry merge with the lockset of the item joined into the entry of
\* every context of the function instead of the context of the item alone
EntryMergeEveryContext(cached_entry, call_context, single_entry_lockset) ==
    LET merged == [c \in DOMAIN cached_entry |->
                        Merge(cached_entry[c], single_entry_lockset)]
    IN  IF call_context \in DOMAIN cached_entry
        THEN merged
        ELSE MapPut(merged, call_context, NewLockSet)

\* the entry locksets of the dequeued function after the worklist item was
\* applied to the cached ones
EntryMerge(cached_entry, call_context, single_entry_lockset) ==
    IF call_context \in DOMAIN cached_entry
    THEN MapPut(cached_entry, call_context,
                Merge(cached_entry[call_context], single_entry_lockset))
    ELSE MapPut(cached_entry, call_context, NewLockSet)

\* items pushed for the caller when the exit lockset changed
CallerItems(call_context, analyzed, order) ==
    [i \in DOMAIN order |->
        WorkItem(call_context.site.caller_def_id, order[i],
                 analyzed[call_context.site.caller_def_id].entry_lockset[order[i]])]

NotifiesCaller(an, res) ==
    /\ exit_changed(an, res)
    /\ an.call_context.tag = "Place"
    /\ an.call_context.site.caller_def_id \in DOMAIN an.analyzed_functions

\* items pushed for the influenced callees
CalleeItems(influenced, order) ==
    [i \in DOMAIN order |->
        WorkItem(order[i], influenced[order[i]].context, influenced[order[i]].lockset)]

\* the record of what the call sites sent, after the items of the influenced
\* callees are pushed
Propagate(sent, influenced) ==
    LET keys == {[func |-> c, context |-> influenced[c].context] : c \in DOMAIN influenced}
    IN  [k \in (DOMAIN sent) \cup keys |->
            IF k \in keys
            THEN IF k \in DOMAIN sent
                 THEN Merge(sent[k], influenced[k.func].lockset)
                 ELSE influenced[k.func].lockset
            ELSE sent[k]]

LockSetSeed ==
    /\ pc = "lockset_seed"
    /\ worklist' = [i \in DOMAIN Program(prog).funcs |->
                       WorkItem(Program(prog).funcs[i], Default, NewLockSet)]
    /\ iteration_limit' = FuseFactor * Len(Program(prog).funcs)
    /\ analyzed_functions' = EmptyMap
    /\ pc' = "lockset"
    /\ UNCHANGED <<prog, warnings, graph_calls, lat_in, lat_out, propagated, global_lockmap, stage_log, program_isr_info, enable_interrupt_apis, disable_interrupt_apis,
                   program_lock_set, ldg_todo, normal_edges, intr_edges, graph, reports>>

\* the body of the while loop on the head of the worklist: the worklist and
\* the summaries it leaves and the influenced callees it pushed, one outcome
\* for every iteration order of the hash maps
IterationOutcomes(p, lockmaps, wl, analyzed_fns) ==
    LET item == Head(wl)
        func_def_id == item.func
    IN  IF func_def_id \notin DOMAIN lockmaps
        THEN {[worklist |-> Tail(wl), analyzed_functions |-> analyzed_fns,
               influenced |-> EmptyMap]}
        ELSE LET cached == func_def_id \in DOMAIN analyzed_fns
                 current_entry_lockset ==
                     EntryMerge(IF cached
                                THEN analyzed_fns[func_def_id].entry_lockset
                                ELSE EmptyMap,
                                item.context, item.lockset)
                 \* the cached entry is updated in place (get_mut)
                 analyzed == IF cached
                             THEN [analyzed_fns EXCEPT
                                     ![func_def_id].entry_lockset = current_entry_lockset]
                             ELSE analyzed_fns
                 an == [p |-> p, func_def_id |-> func_def_id,
                        call_context |-> item.context,
                        lockmap |-> lockmaps[func_def_id],
                        entry_lockset |-> current_entry_lockset,
                        analyzed_functions |-> analyzed]
                 res == FuncLockSetRun(an)
                 caller_ctxs == IF NotifiesCaller(an, res)
                                THEN DOMAIN analyzed[item.context.site.caller_def_id]
                                                .entry_lockset
                                ELSE {}
             IN  UNION {{[worklist |-> Tail(wl)
                                \o CallerItems(item.context, analyzed, caller_order)
                                \o CalleeItems(influenced, callee_order),
                          analyzed_functions |->
                                MapPut(analyzed, func_def_id, res.func_lock_info),
                          influenced |-> influenced] :
                            caller_order \in IterationOrders(caller_ctxs),
                            callee_order \in IterationOrders(DOMAIN influenced)} :
                        influenced \in InfluencedCallees(an, res)}

\* one iteration of the while loop
LockSetIterate ==
    /\ pc = "lockset"
    /\ iteration_limit > 0
    /\ worklist # <<>>
    /\ iteration_limit' = iteration_limit - 1
    /\ \E o \in IterationOutcomes(prog, global_lockmap, worklist, analyzed_functions) :
            /\ worklist' = o.worklist
            /\ analyzed_functions' = o.analyzed_functions
            /\ propagated' = Propagate(propagated, o.influenced)
    /\ UNCHANGED <<prog, warnings, graph_calls, lat_in, lat_out, global_lockmap, stage_log, pc, program_isr_info, enable_interrupt_apis,
                   disable_interrupt_apis, program_lock_set, ldg_todo,
                   normal_edges, intr_edges, graph, reports>>

\* the loop ends (worklist empty or fuse spent) and run returns the summaries
LockSetReturn ==
    /\ pc = "lockset"
    /\ ~(iteration_limit > 0 /\ worklist # <<>>)
    /\ program_lock_set' = analyzed_functions
    /\ pc' = "ldg_start"
    /\ stage_log' = Append(stage_log, "LockSetAnalyzer")
    /\ UNCHANGED <<prog, warnings, graph_calls, lat_in, lat_out, propagated, global_lockmap, program_isr_info, enable_interrupt_apis, disable_interrupt_apis,
                   worklist, iteration_limit, analyzed_functions, ldg_todo,
                   normal_edges, intr_edges, graph, reports>>

----------------------------------------------------------------------------
(* types.rs, isr_analyzer.rs: interrupt states *)

\* IrqState::union with MustBeDisabled absorbing what is joined into it
IrqUnionDisabledWins(self, other) ==
    CASE self = "Bottom" -> other
      [] other = "Bottom" -> self
      [] self = "MustBeDisabled" -> "MustBeDisabled"
      [] OTHER -> "MayBeEnabled"

\* IrqState::union
IrqUnion(self, other) ==
    CASE self = "Bottom" -> other
      [] other = "Bottom" -> self
      [] self = "MustBeDisabled" /\ other = "MustBeDisabled" -> "MustBeDisabled"
      [] OTHER -> "MayBeEnabled"

\* JoinSemiLattice::join for IrqState: the value left in self and the boolean
IrqJoin(self, other) ==
    [state |-> IrqUnion(self, other), changed |-> IrqUnion(self, other) # self]

\* ProgramIsrInfo::new
NewProgramIsrInfo == [isr_entries |-> {}, isr_funcs |-> {}, func_irq_infos |-> EmptyMap]

\* the terminator effect without the join of the callee's exit state
IrqTerminatorEffectNoCallee(isr, analyzed, state, t) ==
    IF const_fn_def(t) = {} THEN state
    ELSE LET callee == t.callee
             is_enable == callee \in isr.enable_interrupt_apis
             is_disable == callee \in isr.disable_interrupt_apis
             s1 == IF is_enable THEN "MayBeEnabled" ELSE state
         IN  IF is_disable THEN "MustBeDisabled" ELSE s1

\* FuncIsrAnalyzer::apply_primary_terminator_effect
\* isr = [p, enable_interrupt_apis, disable_interrupt_apis]
IrqTerminatorEffect(isr, analyzed, state, t) ==
    IF const_fn_def(t) = {} THEN state
    ELSE LET callee == t.callee
             is_enable == callee \in isr.enable_interrupt_apis
             is_disable == callee \in isr.disable_interrupt_apis
             s1 == IF is_enable THEN "MayBeEnabled" ELSE state
             s2 == IF is_disable THEN "MustBeDisabled" ELSE s1
             found_api == is_enable \/ is_disable
         IN  IF ~found_api /\ is_mir_available(isr.p, callee) /\ callee \in DOMAIN analyzed
             THEN IrqUnion(s2, analyzed[callee].exit_irq_state)
             ELSE s2

RECURSIVE PropagateIrq(_, _, _, _)
PropagateIrq(entry_sets, queue, targets, state) ==
    IF targets = <<>> THEN [entry_sets |-> entry_sets, queue |-> queue]
    ELSE LET t == Head(targets)
             joined == IrqUnion(entry_sets[t], state)
         IN  PropagateIrq(
                 [entry_sets EXCEPT ![t] = joined],
                 IF joined # entry_sets[t] /\ t \notin SeqToSet(queue)
                 THEN Append(queue, t) ELSE queue,
                 Tail(targets), state)

RECURSIVE IterateIrq(_, _, _, _)
\* st = [entry_sets, queue]
IterateIrq(isr, analyzed, f, st) ==
    IF st.queue = <<>> THEN st
    ELSE LET bb == Head(st.queue)
             out == IrqTerminatorEffect(isr, analyzed, st.entry_sets[bb], Term(isr.p, f, bb))
         IN  IterateIrq(isr, analyzed, f,
                        PropagateIrq(st.entry_sets, Tail(st.queue),
                                     Successors(isr.p, f, bb), out))

\* the block-entry states of the fixed point of FuncIsrAnalyzer over f
IrqEntryStates(isr, analyzed, f) ==
    IterateIrq(isr, analyzed, f,
               [entry_sets |-> [b \in Blocks(isr.p, f) |-> "Bottom"],
                queue |-> ReversePostorder(isr.p, f)]).entry_sets

RECURSIVE JoinAll(_)
JoinAll(S) ==
    IF S = {} THEN "Bottom"
    ELSE LET x == CHOOSE y \in S : TRUE IN IrqUnion(JoinAll(S \ {x}), x)

\* the FuncIrqInfo built at the end of analyze_function_interrupt_set
BuildFuncIrqInfo(isr, analyzed, f) ==
    LET pre == IrqEntryStates(isr, analyzed, f)
        at_end(b) == IrqTerminatorEffect(isr, analyzed, pre[b], Term(isr.p, f, b))
    IN  [def_id |-> f,
         exit_irq_state |->
            JoinAll({at_end(b) : b \in {x \in Blocks(isr.p, f) :
                                           Term(isr.p, f, x).kind = "Return"}}),
         pre_bb_irq_states |-> pre,
         interrupt_enable_sites |-> <<>>]

\* callgraph.get_callees_defid
get_callees_defid(p, f) ==
    LET body == Program(p).body[f]
        RECURSIVE Collect(_)
        Collect(i) == IF i > Len(body) THEN <<>>
                      ELSE IF const_fn_def(body[i]) # {}
                           THEN <<body[i].callee>> \o Collect(i + 1)
                           ELSE Collect(i + 1)
    IN  Collect(1)

RECURSIVE analyze_function_interrupt_set(_, _, _, _)
RECURSIVE AnalyzeCallees(_, _, _, _)
\* returns analyzed_functions; recursion_stack is the current call path
analyze_function_interrupt_set(isr, func_def_id, analyzed, recursion_stack) ==
    IF \/ func_def_id \in DOMAIN analyzed
       \/ func_def_id \in recursion_stack
       \/ ~is_mir_available(isr.p, func_def_id)
    THEN analyzed
    ELSE LET a1 == AnalyzeCallees(isr, get_callees_defid(isr.p, func_def_id), analyzed,
                                  recursion_stack \cup {func_def_id})
         IN  MapPut(a1, func_def_id, BuildFuncIrqInfo(isr, a1, func_def_id))
AnalyzeCallees(isr, callees, analyzed, recursion_stack) ==
    IF callees = <<>> THEN analyzed
    ELSE AnalyzeCallees(isr, Tail(callees),
             analyze_function_interrupt_set(isr, Head(callees), analyzed, recursion_stack),
             recursion_stack)

\* IsrAnalyzer::analyze_interrupt_set: the table stored in func_irq_infos
analyze_interrupt_set(isr) == AnalyzeCallees(isr, Program(isr.p).funcs, EmptyMap, {})

\* The traversal of analyze_interrupt_set on a call graph cg (body owners in
\* hir order, the functions with MIR, a callee list for every function):
\* analyzed is the key set of the cache, runs the intra-procedural fixed
\* points in the order they are run, each with the keys cached at its start.
NewIrqOrder == [analyzed |-> {}, recursion_stack |-> {}, runs |-> <<>>]

\* the early returns that look at the recursion stack only
SkipsFunctionOnStackOnly(cg, func_def_id, st) ==
    \/ func_def_id \in st.recursion_stack
    \/ func_def_id \notin cg.mir

\* the three early returns of analyze_function_interrupt_set
SkipsFunction(cg, func_def_id, st) ==
    \/ func_def_id \in st.analyzed
    \/ func_def_id \in st.recursion_stack
    \/ func_def_id \notin cg.mir

RECURSIVE AnalyzeFunctionOrder(_, _, _)
RECURSIVE AnalyzeCalleesOrder(_, _, _)
AnalyzeFunctionOrder(cg, func_def_id, st) ==
    IF SkipsFunction(cg, func_def_id, st) THEN st
    ELSE LET pushed == [st EXCEPT !.recursion_stack = @ \cup {func_def_id}]
             s1 == AnalyzeCalleesOrder(cg, cg.callees[func_def_id], pushed)
         IN  [analyzed |-> s1.analyzed \cup {func_def_id},
              recursion_stack |-> s1.recursion_stack \ {func_def_id},
              runs |-> Append(s1.runs, [func |-> func_def_id, cached |-> s1.analyzed])]
AnalyzeCalleesOrder(cg, callees, st) ==
    IF callees = <<>> THEN st
    ELSE AnalyzeCalleesOrder(cg, Tail(callees),
                             AnalyzeFunctionOrder(cg, Head(callees), st))

\* analyze_interrupt_set: the outer loop calls the function on the body
\* owners that have MIR
AnalyzeInterruptSetOrder(cg) ==
    AnalyzeCalleesOrder(cg, SelectSeq(cg.owners, LAMBDA f : f \in cg.mir), NewIrqOrder)

\* IsrAnalyzer::collect_isr: the entries themselves; the callee closure is
\* commented out in the source
collect_isr(isr_entries) == isr_entries

\* the ProgramIsrInfo after collect_isr; collect_interrupt_apis fills the two
\* api lists from the IntrApi tags
CollectedIsrInfo(p) ==
    [isr_entries |-> Program(p).isr_entries,
     isr_funcs |-> collect_isr(Program(p).isr_entries),
     func_irq_infos |-> EmptyMap]

\* IsrAnalyzer::run: collect_isr, collect_interrupt_apis, and a clone of
\* program_isr_info; the call of analyze_interrupt_set is commented out
IsrAnalyzerRun ==
    /\ pc = "isr"
    /\ program_isr_info' = CollectedIsrInfo(prog)
    /\ enable_interrupt_apis' = Program(prog).enable
    /\ disable_interrupt_apis' = Program(prog).disable
    /\ pc' = "lock_collect"
    /\ stage_log' = Append(stage_log, "IsrAnalyzer")
    /\ UNCHANGED <<prog, warnings, graph_calls, lat_in, lat_out, propagated, global_lockmap, worklist, iteration_limit, analyzed_functions, program_lock_set,
                   ldg_todo, normal_edges, intr_edges, graph, reports>>

\* IsrAnalyzer::run with step 3, analyze_interrupt_set, carried out
IsrAnalyzerRunAnalyzed ==
    /\ pc = "isr"
    /\ program_isr_info' =
          [CollectedIsrInfo(prog) EXCEPT !.func_irq_infos =
              analyze_interrupt_set([p |-> prog,
                                     enable_interrupt_apis |-> Program(prog).enable,
                                     disable_interrupt_apis |-> Program(prog).disable])]
    /\ enable_interrupt_apis' = Program(prog).enable
    /\ disable_interrupt_apis' = Program(prog).disable
    /\ pc' = "lock_collect"
    /\ stage_log' = Append(stage_log, "IsrAnalyzer")
    /\ UNCHANGED <<prog, warnings, graph_calls, lat_in, lat_out, propagated, global_lockmap, worklist, iteration_limit, analyzed_functions, program_lock_set,
                   ldg_todo, normal_edges, intr_edges, graph, reports>>

----------------------------------------------------------------------------
(* mod.rs: DeadlockDetector::run *)

\* DeadlockDetector::run as it stands: the call graph and the tags are built,
\* IsrAnalyzer::run is called and its result printed, then run returns; steps
\* 2 to 5 (lock collector, lock-set analyzer, LDG constructor, reporter) are
\* commented out
DeadlockDetectorRun ==
    /\ pc = "isr"
    /\ program_isr_info' = CollectedIsrInfo(prog)
    /\ enable_interrupt_apis' = Program(prog).enable
    /\ disable_interrupt_apis' = Program(prog).disable
    /\ stage_log' = Append(stage_log, "IsrAnalyzer")
    /\ pc' = "detector_returned"
    /\ UNCHANGED <<prog, warnings, graph_calls, lat_in, lat_out, propagated, global_lockmap, worklist, iteration_limit, analyzed_functions,
                   program_lock_set, ldg_todo, normal_edges, intr_edges, graph, reports>>

\* step 2, LockCollector::collect: the GlobalLockMap of the crate
LockCollectorCollect ==
    /\ pc = "lock_collect"
    /\ global_lockmap' = Program(prog).lockmap
    /\ stage_log' = Append(stage_log, "LockCollector")
    /\ pc' = "lockset_seed"
    /\ UNCHANGED <<prog, warnings, graph_calls, lat_in, lat_out, propagated, program_isr_info, enable_interrupt_apis, disable_interrupt_apis,
                   worklist, iteration_limit, analyzed_functions, program_lock_set,
                   ldg_todo, normal_edges, intr_edges, graph, reports>>

----------------------------------------------------------------------------
(* types.rs: LockDependencyGraph *)

CallEdge(cs) == [kind |-> "Call", site |-> cs]
InterruptEdge(cs) == [kind |-> "Interrupt", site |-> cs]

\* LockDependencyGraph::new; node and edge indices count from 0
NewGraph == [nodes |-> <<>>, edges |-> <<>>]

\* node_id_or_insert that adds a node on every call
node_id_or_insert_fresh(g, lock) ==
    [graph |-> [g EXCEPT !.nodes = Append(@, lock)], idx |-> Len(g.nodes)]

\* LockDependencyGraph::node_id_or_insert
node_id_or_insert(g, lock) ==
    IF \E i \in DOMAIN g.nodes : g.nodes[i] = lock
    THEN [graph |-> g, idx |-> (CHOOSE i \in DOMAIN g.nodes : g.nodes[i] = lock) - 1]
    ELSE [graph |-> [g EXCEPT !.nodes = Append(@, lock)], idx |-> Len(g.nodes)]

add_edge(g, source, target, weight) ==
    [g EXCEPT !.edges = Append(@, [source |-> source, target |-> target,
                                   weight |-> weight])]

\* LockDependencyGraph::insert_normal_edge
insert_normal_edge(g, new_lock_site, old_lock_site, call_location) ==
    LET n == node_id_or_insert(g, new_lock_site.lock)
        o == node_id_or_insert(n.graph, old_lock_site.lock)
    IN  add_edge(o.graph, n.idx, o.idx,
                 [edge_type |-> CallEdge(call_location),
                  new_lock_site |-> new_lock_site,
                  old_lock_site |-> old_lock_site])

\* the test of insert_interrupt_edge that makes it skip the insertion
SameSitesEdgeExists(g, source, target, new_lock_site, old_lock_site) ==
    \E i \in DOMAIN g.edges :
        /\ g.edges[i].source = source
        /\ g.edges[i].target = target
        /\ g.edges[i].weight.new_lock_site = new_lock_site
        /\ g.edges[i].weight.old_lock_site = old_lock_site

\* insert_interrupt_edge without the test for an edge with the same sites
insert_interrupt_edge_always(g, new_lock_site, old_lock_site, interrupt_location) ==
    LET n == node_id_or_insert(g, new_lock_site.lock)
        o == node_id_or_insert(n.graph, old_lock_site.lock)
    IN  add_edge(o.graph, n.idx, o.idx,
                 [edge_type |-> InterruptEdge(interrupt_location),
                  new_lock_site |-> new_lock_site,
                  old_lock_site |-> old_lock_site])

\* LockDependencyGraph::insert_interrupt_edge
insert_interrupt_edge(g, new_lock_site, old_lock_site, interrupt_location) ==
    LET n == node_id_or_insert(g, new_lock_site.lock)
        o == node_id_or_insert(n.graph, old_lock_site.lock)
    IN  IF SameSitesEdgeExists(o.graph, n.idx, o.idx, new_lock_site, old_lock_site)
        THEN o.graph
        ELSE add_edge(o.graph, n.idx, o.idx,
                      [edge_type |-> InterruptEdge(interrupt_location),
                       new_lock_site |-> new_lock_site,
                       old_lock_site |-> old_lock_site])

----------------------------------------------------------------------------
(* ldg_constructor.rs *)

\* the lock sites of the locks a lockset holds with state MayHold
HeldLockSites(lockset) ==
    UNION {{LockSite(l, cs) : cs \in lockset.lock_sites[l]} :
            l \in {k \in DOMAIN lockset.lock_sites :
                      k \in DOMAIN lockset.lock_states
                      /\ lockset.lock_states[k] = "MayHold"}}

\* extract_locksite_pairs
extract_locksite_pairs(callsite_lockset, callee_lock_operations) ==
    callee_lock_operations \X HeldLockSites(callsite_lockset)

\* an element of LockSitePairsWithCallSite
Triple(new, old, callsite) == [new |-> new, old |-> old, callsite |-> callsite]

\* NormalEdgeCollector::collect with the edge tagged by the site of the held
\* lock instead of the site of the acquisition
NormalEdgeCollectHeldSite(pls, caller_def_id) ==
    IF caller_def_id \in DOMAIN pls
    THEN LET func_info == pls[caller_def_id]
         IN  UNION {IF new_lock_site.site.location \in DOMAIN func_info.pre_bb_locksets
                    THEN {Triple(new_lock_site, held, held.site) :
                            held \in HeldLockSites(
                                func_info.pre_bb_locksets[new_lock_site.site.location])}
                    ELSE {} :
                    new_lock_site \in func_info.lock_operations}
    ELSE {}

\* NormalEdgeCollector::collect; visit_body is commented out in it, so only
\* the lock operations of the function itself are handled
NormalEdgeCollect(pls, caller_def_id) ==
    IF caller_def_id \in DOMAIN pls
    THEN LET func_info == pls[caller_def_id]
         IN  UNION {IF new_lock_site.site.location \in DOMAIN func_info.pre_bb_locksets
                    THEN {Triple(new_lock_site, held, new_lock_site.site) :
                            held \in HeldLockSites(
                                func_info.pre_bb_locksets[new_lock_site.site.location])}
                    ELSE {} :
                    new_lock_site \in func_info.lock_operations}
    ELSE {}

\* NormalEdgeCollector::visit_terminator, which NormalEdgeCollector::collect
\* does not reach
NormalVisitTerminator(p, pls, caller_def_id, location) ==
    LET t == Term(p, caller_def_id, location)
    IN  IF caller_def_id \in DOMAIN pls /\ const_fn_def(t) # {} /\ t.callee \in DOMAIN pls
        THEN {Triple(pair[1], pair[2], CallSite(caller_def_id, location)) :
                pair \in extract_locksite_pairs(
                            pls[caller_def_id].pre_bb_locksets[location],
                            pls[t.callee].lock_operations)}
        ELSE {}

\* InterruptEdgeCollector::visit_terminator with a function that has no
\* FuncIrqInfo taken as interruptible everywhere instead of being skipped
InterruptVisitTerminatorNoInfoEnabled(pls, isr_info, func_def_id, location) ==
    IF func_def_id \in DOMAIN isr_info.func_irq_infos
       /\ isr_info.func_irq_infos[func_def_id].pre_bb_irq_states[location]
                = "MustBeDisabled" THEN {}
    ELSE IF func_def_id \notin DOMAIN pls THEN {}
    ELSE LET callsite_lockset == pls[func_def_id].pre_bb_locksets[location]
         IN  UNION {{Triple(pair[1], pair[2], CallSite(func_def_id, location)) :
                        pair \in extract_locksite_pairs(callsite_lockset,
                                                        pls[isr_def_id].lock_operations)} :
                    isr_def_id \in isr_info.isr_funcs \cap DOMAIN pls}

\* InterruptEdgeCollector::visit_terminator
InterruptVisitTerminator(pls, isr_info, func_def_id, location) ==
    IF func_def_id \notin DOMAIN isr_info.func_irq_infos THEN {}
    ELSE IF isr_info.func_irq_infos[func_def_id].pre_bb_irq_states[location]
                = "MustBeDisabled" THEN {}
    ELSE IF func_def_id \notin DOMAIN pls THEN {}
    ELSE LET callsite_lockset == pls[func_def_id].pre_bb_locksets[location]
         IN  UNION {{Triple(pair[1], pair[2], CallSite(func_def_id, location)) :
                        pair \in extract_locksite_pairs(callsite_lockset,
                                                        pls[isr_def_id].lock_operations)} :
                    isr_def_id \in isr_info.isr_funcs \cap DOMAIN pls}

\* InterruptEdgeCollector::collect: visit_body reaches the terminator of every block
InterruptEdgeCollect(p, pls, isr_info, func_def_id) ==
    UNION {InterruptVisitTerminator(pls, isr_info, func_def_id, b) :
            b \in Blocks(p, func_def_id)}

\* LDGConstructor::new
LdgNew ==
    /\ pc = "ldg_start"
    /\ graph' = NewGraph
    /\ ldg_todo' = Program(prog).funcs
    /\ normal_edges' = {}
    /\ intr_edges' = {}
    /\ pc' = "ldg"
    /\ UNCHANGED <<prog, warnings, graph_calls, lat_in, lat_out, propagated, global_lockmap, stage_log, program_isr_info, enable_interrupt_apis, disable_interrupt_apis,
                   worklist, iteration_limit, analyzed_functions, program_lock_set,
                   reports>>

\* LDGConstructor::run, loop head: both collectors run on the next function
LdgVisitFunction ==
    /\ pc = "ldg"
    /\ normal_edges = {} /\ intr_edges = {}
    /\ ldg_todo # <<>>
    /\ normal_edges' = NormalEdgeCollect(program_lock_set, Head(ldg_todo))
    /\ intr_edges' = InterruptEdgeCollect(prog, program_lock_set, program_isr_info,
                                          Head(ldg_todo))
    /\ ldg_todo' = Tail(ldg_todo)
    /\ UNCHANGED <<prog, warnings, graph_calls, lat_in, lat_out, propagated, global_lockmap, stage_log, pc, program_isr_info, enable_interrupt_apis,
                   disable_interrupt_apis, worklist, iteration_limit, analyzed_functions,
                   program_lock_set, graph, reports>>

\* LDGConstructor::run, one iteration of an insertion loop: the normal edges
\* of the function first, then its interrupt edges, each set in any order
LdgInsertEdge ==
    /\ pc = "ldg"
    /\ normal_edges # {} \/ intr_edges # {}
    /\ IF normal_edges # {}
       THEN \E e \in normal_edges :
                /\ graph' = insert_normal_edge(graph, e.new, e.old, e.callsite)
                /\ normal_edges' = normal_edges \ {e}
                /\ intr_edges' = intr_edges
       ELSE \E e \in intr_edges :
                /\ graph' = insert_interrupt_edge(graph, e.new, e.old, e.callsite)
                /\ intr_edges' = intr_edges \ {e}
                /\ normal_edges' = normal_edges
    /\ UNCHANGED <<prog, warnings, graph_calls, lat_in, lat_out, propagated, global_lockmap, stage_log, pc, program_isr_info, enable_interrupt_apis,
                   disable_interrupt_apis, worklist, iteration_limit, analyzed_functions,
                   program_lock_set, ldg_todo, reports>>

\* LDGConstructor::run returns and into_graph hands the graph over
LdgReturn ==
    /\ pc = "ldg"
    /\ normal_edges = {} /\ intr_edges = {}
    /\ ldg_todo = <<>>
    /\ pc' = "report"
    /\ stage_log' = Append(stage_log, "LDGConstructor")
    /\ UNCHANGED <<prog, warnings, graph_calls, lat_in, lat_out, propagated, global_lockmap, program_isr_info, enable_interrupt_apis, disable_interrupt_apis,
                   worklist, iteration_limit, analyzed_functions, program_lock_set,
                   ldg_todo, normal_edges, intr_edges, graph, reports>>

----------------------------------------------------------------------------
(* deadlock_reporter.rs *)

\* self_cycle_node without the test that skips Call edges
self_cycle_node_any_type(g) ==
    {<<g.edges[i].source, i - 1>> :
        i \in {j \in DOMAIN g.edges : g.edges[j].source = g.edges[j].target}}

\* self_cycle_node: pairs (NodeIndex, EdgeIndex)
self_cycle_node(g) ==
    {<<g.edges[i].source, i - 1>> :
        i \in {j \in DOMAIN g.edges :
                  /\ g.edges[j].weight.edge_type.kind # "Call"
                  /\ g.edges[j].source = g.edges[j].target}}

\* DeadlockReporter::run
DeadlockReporterRun ==
    /\ pc = "report"
    /\ reports' = self_cycle_node(graph)
    /\ pc' = "done"
    /\ stage_log' = Append(stage_log, "DeadlockReporter")
    /\ UNCHANGED <<prog, warnings, graph_calls, lat_in, lat_out, propagated, global_lockmap, program_isr_info, enable_interrupt_apis, disable_interrupt_apis,
                   worklist, iteration_limit, analyzed_functions, program_lock_set,
                   ldg_todo, normal_edges, intr_edges, graph>>

----------------------------------------------------------------------------
(* One crate is analysed.  Either DeadlockDetector::run is called, or the    *)
(* stages are called one after the other in the order of the steps listed  *)
(* in DeadlockDetector::run, each on the results of the stages before it.  *)

Init ==
    /\ prog \in Programs
    /\ pc = "isr"
    /\ stage_log = <<>>
    /\ global_lockmap = EmptyMap
    /\ propagated = EmptyMap
    /\ warnings = {}
    /\ graph_calls = <<>>
    /\ lat_in = [kind |-> "none"]
    /\ lat_out = [op |-> "none"]
    /\ program_isr_info = NewProgramIsrInfo
    /\ enable_interrupt_apis = {}
    /\ disable_interrupt_apis = {}
    /\ worklist = <<>>
    /\ iteration_limit = 0
    /\ analyzed_functions = EmptyMap
    /\ program_lock_set = EmptyMap
    /\ ldg_todo = <<>>
    /\ normal_edges = {}
    /\ intr_edges = {}
    /\ graph = NewGraph
    /\ reports = {}

Stages ==
    \/ LockCollectorCollect
    \/ LockSetSeed
    \/ LockSetIterate
    \/ LockSetReturn
    \/ LdgNew
    \/ LdgVisitFunction
    \/ LdgInsertEdge
    \/ LdgReturn
    \/ DeadlockReporterRun

Next == DeadlockDetectorRun \/ IsrAnalyzerRun \/ Stages

Spec == Init /\ [][Next]_vars

\* the same stages with the interrupt-state summaries computed
NextIrq == IsrAnalyzerRunAnalyzed \/ Stages

SpecIrq == Init /\ [][NextIrq]_vars

----------------------------------------------------------------------------
(* The LockDependencyGraph and the reporter on their own: the two insertion  *)
(* operations are called in any order with any arguments, then the reporter *)
(* runs on the graph they built.                                            *)

MaxEdges == 3

\* the number of insertions made on a graph
MaxCalls == 3

\* one call and the graph it left behind
GraphCall(op, new_lock_site, old_lock_site, location, after) ==
    [op |-> op, new_lock_site |-> new_lock_site, old_lock_site |-> old_lock_site,
     location |-> location, after |-> after]

GraphCallSites == {CallSite("f", 0), CallSite("g", 1)}
GraphLockSites == {LockSite("L", CallSite("f", 0)), LockSite("L", CallSite("g", 1)),
                   LockSite("M", CallSite("f", 0))}

InitGraph ==
    /\ prog = "scenario1"
    /\ pc = "graph"
    /\ stage_log = <<>>
    /\ global_lockmap = EmptyMap
    /\ propagated = EmptyMap
    /\ warnings = {}
    /\ graph_calls = <<>>
    /\ lat_in = [kind |-> "none"]
    /\ lat_out = [op |-> "none"]
    /\ program_isr_info = NewProgramIsrInfo
    /\ enable_interrupt_apis = {}
    /\ disable_interrupt_apis = {}
    /\ worklist = <<>>
    /\ iteration_limit = 0
    /\ analyzed_functions = EmptyMap
    /\ program_lock_set = EmptyMap
    /\ ldg_todo = <<>>
    /\ normal_edges = {}
    /\ intr_edges = {}
    /\ graph = NewGraph
    /\ reports = {}

GraphInsertNormal ==
    /\ pc = "graph"
    /\ Len(graph.edges) < MaxEdges
    /\ Len(graph_calls) < MaxCalls
    /\ \E new \in GraphLockSites, old \in GraphLockSites, cs \in GraphCallSites :
            /\ graph' = insert_normal_edge(graph, new, old, cs)
            /\ graph_calls' = Append(graph_calls,
                                     GraphCall("insert_normal_edge", new, old, cs,
                                               insert_normal_edge(graph, new, old, cs)))
    /\ UNCHANGED <<prog, warnings, lat_in, lat_out, propagated, pc, stage_log, global_lockmap, program_isr_info,
                   enable_interrupt_apis, disable_interrupt_apis, worklist,
                   iteration_limit, analyzed_functions, program_lock_set, ldg_todo,
                   normal_edges, intr_edges, reports>>

GraphInsertInterrupt ==
    /\ pc = "graph"
    /\ Len(graph.edges) < MaxEdges
    /\ Len(graph_calls) < MaxCalls
    /\ \E new \in GraphLockSites, old \in GraphLockSites, cs \in GraphCallSites :
            /\ graph' = insert_interrupt_edge(graph, new, old, cs)
            /\ graph_calls' = Append(graph_calls,
                                     GraphCall("insert_interrupt_edge", new, old, cs,
                                               insert_interrupt_edge(graph, new, old, cs)))
    /\ UNCHANGED <<prog, warnings, lat_in, lat_out, propagated, pc, stage_log, global_lockmap, program_isr_info,
                   enable_interrupt_apis, disable_interrupt_apis, worklist,
                   iteration_limit, analyzed_functions, program_lock_set, ldg_todo,
                   normal_edges, intr_edges, reports>>

\* DeadlockReporter::new(graph).run()
GraphReport ==
    /\ pc = "graph"
    /\ reports' = self_cycle_node(graph)
    /\ pc' = "graph_reported"
    /\ UNCHANGED <<prog, warnings, graph_calls, lat_in, lat_out, propagated, stage_log, global_lockmap, program_isr_info,
                   enable_interrupt_apis, disable_interrupt_apis, worklist,
                   iteration_limit, analyzed_functions, program_lock_set, ldg_todo,
                   normal_edges, intr_edges, graph>>

NextGraph == GraphInsertNormal \/ GraphInsertInterrupt \/ GraphReport

SpecGraph == InitGraph /\ [][NextGraph]_vars

----------------------------------------------------------------------------
(* lock_collector.rs: LockMapBuilder, on the statements and call terminators *)
(* of one function body in the order visit_body reaches them                *)

\* operands of a call
PlaceOperand(local) == [kind |-> "Place", local |-> local]
ConstantOperand == [kind |-> "Constant", local |-> 0]

\* _dest = &_src, _dest = copy _src, _dest = move _src
AssignPlace(dest, src) ==
    [kind |-> "AssignPlace", dest |-> dest, src |-> src, lock |-> "-", args |-> <<>>]
\* _dest = const {static of a lock instance}
AssignStatic(dest, lock) ==
    [kind |-> "AssignStatic", dest |-> dest, src |-> 0, lock |-> lock, args |-> <<>>]
\* _dest = f(args)
MirCall(dest, args) ==
    [kind |-> "Call", dest |-> dest, src |-> 0, lock |-> "-", args |-> args]

\* LockMapBuilder::new; guards are the locals of the function in
\* lockguard_instances
NewLockMapBuilder(guards) ==
    [guards |-> guards, local_dataflow_map |-> EmptyMap, lockmap |-> EmptyMap,
     panicked |-> FALSE]

\* LockMapBuilder::visit_terminator for a Call; args[0] is an index into the
\* argument slice, which panics when the slice is empty
LockMapBuilderVisitTerminator(b, t) ==
    IF t.dest \in b.guards
    THEN IF Len(t.args) = 0 THEN [b EXCEPT !.panicked = TRUE]
         ELSE IF t.args[1].kind = "Place"
              THEN [b EXCEPT !.local_dataflow_map = MapPut(@, t.dest, t.args[1].local)]
              ELSE b
    ELSE IF Len(t.args) >= 1 /\ t.args[1].kind = "Place"
         THEN [b EXCEPT !.local_dataflow_map = MapPut(@, t.dest, t.args[1].local)]
         ELSE b

\* LockMapBuilder::visit_assign
LockMapBuilderVisitAssign(b, st) ==
    IF st.kind = "AssignPlace"
    THEN [b EXCEPT !.local_dataflow_map = MapPut(@, st.dest, st.src)]
    ELSE [b EXCEPT !.lockmap = MapPut(@, st.dest, st.lock)]

RECURSIVE LockMapBuilderVisitBody(_, _)
\* visit_body; a panic unwinds out of it
LockMapBuilderVisitBody(b, items) ==
    IF items = <<>> \/ b.panicked THEN b
    ELSE LockMapBuilderVisitBody(
            IF Head(items).kind = "Call"
            THEN LockMapBuilderVisitTerminator(b, Head(items))
            ELSE LockMapBuilderVisitAssign(b, Head(items)),
            Tail(items))

RECURSIVE FollowDataflow(_, _, _)
\* the loop that follows the dataflow from a local: the lock it reaches,
\* "None" where the chain ends, "Loops" where it runs round a cycle
FollowDataflow(b, current, steps) ==
    IF current \in DOMAIN b.lockmap THEN b.lockmap[current]
    ELSE IF current \notin DOMAIN b.local_dataflow_map THEN "None"
    ELSE IF steps = 0 THEN "Loops"
    ELSE FollowDataflow(b, b.local_dataflow_map[current], steps - 1)

\* LockMapBuilder::collect: [outcome, lockmap]
LockMapBuilderCollect(items, guards) ==
    LET b == LockMapBuilderVisitBody(NewLockMapBuilder(guards), items)
        keys == (DOMAIN b.local_dataflow_map) \ (DOMAIN b.lockmap)
        found(l) == FollowDataflow(b, l, Cardinality(DOMAIN b.local_dataflow_map))
        resolved == {l \in keys : found(l) \notin {"None", "Loops"}}
        squashed == [l \in (DOMAIN b.lockmap) \cup resolved |->
                        IF l \in DOMAIN b.lockmap THEN b.lockmap[l] ELSE found(l)]
    IN  IF b.panicked THEN [outcome |-> "panic", lockmap |-> EmptyMap]
        ELSE IF b.lockmap = EmptyMap THEN [outcome |-> "returned", lockmap |-> EmptyMap]
        ELSE IF \E l \in keys : found(l) = "Loops"
             THEN [outcome |-> "no return", lockmap |-> EmptyMap]
        ELSE [outcome |-> "returned",
              lockmap |-> [l \in (DOMAIN squashed) \cap guards |-> squashed[l]]]

----------------------------------------------------------------------------
(* The lattice operations and the transfer functions on their own: the      *)
(* arguments are drawn from the values of their types over one lock and two *)
(* acquisition sites, and one operation is applied to them.                 *)

LatLocks == {"L"}
\* the number of acquisition sites a lock set can name
MaxSites == 2

LatSites == {CallSite("f", i) : i \in 0 .. (MaxSites - 1)}

LockStates == {"Bottom", "MustNotHold", "MayHold"}
IrqStates == {"Bottom", "MustBeDisabled", "MayBeEnabled"}

\* HashMap<K, V>: the maps from a subset of K to V
PartialMaps(K, V) == UNION {[D -> V] : D \in SUBSET K}

LatLockSets ==
    {[lock_states |-> st, lock_sites |-> si] :
        st \in PartialMaps(LatLocks, LockStates),
        si \in PartialMaps(LatLocks, SUBSET LatSites)}

\* the number of statements and call terminators of a function body
MaxItems == 4

\* _1 is the only local of a guard type; _2, _3 and _4 carry references
LatGuards == {1}

LatItems ==
    {AssignStatic(3, "L"), AssignStatic(4, "L"), AssignPlace(2, 3), AssignPlace(3, 2),
     MirCall(1, <<PlaceOperand(2)>>), MirCall(1, <<PlaceOperand(4)>>),
     MirCall(1, <<ConstantOperand>>), MirCall(1, <<>>),
     MirCall(2, <<PlaceOperand(3)>>), MirCall(2, <<>>)}

LatBodies == UNION {[1 .. n -> LatItems] : n \in 0 .. MaxItems}

\* the call graphs over three body owners and a function without MIR: every
\* function has a list of up to MaxCallees distinct callees
MaxCallees == 2
CgOwners == <<"f", "g", "h">>
CgFuncs == {"f", "g", "h", "ext"}
CalleeLists ==
    {l \in UNION {[1 .. n -> CgFuncs] : n \in 0 .. MaxCallees} :
        \A i, j \in DOMAIN l : i # j => l[i] # l[j]}
CallGraphs ==
    {[owners |-> CgOwners, mir |-> {"f", "g", "h"},
      callees |-> [f |-> cf, g |-> cg, h |-> ch, ext |-> <<>>]] :
        cf \in CalleeLists, cg \in CalleeLists, ch \in CalleeLists}

InitLattice ==
    /\ prog = "scenario1"
    /\ pc = "lattice"
    /\ stage_log = <<>>
    /\ global_lockmap = EmptyMap
    /\ propagated = EmptyMap
    /\ warnings = {}
    /\ graph_calls = <<>>
    /\ lat_in \in [kind : {"LockState"}, a : LockStates, b : LockStates, c : LockStates]
            \cup [kind : {"IrqState"}, a : IrqStates, b : IrqStates, c : IrqStates]
            \cup [kind : {"LockSet"}, a : LatLockSets, b : LatLockSets, c : LatLockSets]
            \cup [kind : {"Body"}, items : LatBodies]
            \cup [kind : {"CallGraph"}, cg : CallGraphs]
    /\ lat_out = [op |-> "none"]
    /\ program_isr_info = NewProgramIsrInfo
    /\ enable_interrupt_apis = {}
    /\ disable_interrupt_apis = {}
    /\ worklist = <<>>
    /\ iteration_limit = 0
    /\ analyzed_functions = EmptyMap
    /\ program_lock_set = EmptyMap
    /\ ldg_todo = <<>>
    /\ normal_edges = {}
    /\ intr_edges = {}
    /\ graph = NewGraph
    /\ reports = {}

\* everything but pc and lat_out
LatRest == <<prog, warnings, graph_calls, stage_log, global_lockmap, propagated, lat_in, program_isr_info,
             enable_interrupt_apis, disable_interrupt_apis, worklist, iteration_limit,
             analyzed_functions, program_lock_set, ldg_todo, normal_edges, intr_edges,
             graph, reports>>

\* a.join(b) and the joins the laws compare it with
ApplyLockStateJoin ==
    /\ pc = "lattice" /\ lat_in.kind = "LockState"
    /\ lat_out' = [op |-> "LockState::join",
                   ab |-> LockStateJoin(lat_in.a, lat_in.b),
                   ba |-> LockStateJoin(lat_in.b, lat_in.a),
                   aa |-> LockStateJoin(lat_in.a, lat_in.a),
                   ab_c |-> LockStateJoin(LockStateJoin(lat_in.a, lat_in.b), lat_in.c),
                   a_bc |-> LockStateJoin(lat_in.a, LockStateJoin(lat_in.b, lat_in.c)),
                   a_bottom |-> LockStateJoin(lat_in.a, "Bottom"),
                   bottom_a |-> LockStateJoin("Bottom", lat_in.a)]
    /\ pc' = "lattice_done"
    /\ UNCHANGED LatRest

\* a.union(b), a.join(b) and the joins the laws compare them with
ApplyIrqStateJoin ==
    /\ pc = "lattice" /\ lat_in.kind = "IrqState"
    /\ lat_out' = [op |-> "IrqState::union",
                   ab |-> IrqUnion(lat_in.a, lat_in.b),
                   ba |-> IrqUnion(lat_in.b, lat_in.a),
                   aa |-> IrqUnion(lat_in.a, lat_in.a),
                   ab_c |-> IrqUnion(IrqUnion(lat_in.a, lat_in.b), lat_in.c),
                   a_bc |-> IrqUnion(lat_in.a, IrqUnion(lat_in.b, lat_in.c)),
                   a_bottom |-> IrqUnion(lat_in.a, "Bottom"),
                   bottom_a |-> IrqUnion("Bottom", lat_in.a),
                   join |-> IrqJoin(lat_in.a, lat_in.b)]
    /\ pc' = "lattice_done"
    /\ UNCHANGED LatRest

\* a.merge(b) and the merges the laws compare it with
ApplyMerge ==
    /\ pc = "lattice" /\ lat_in.kind = "LockSet"
    /\ lat_out' = [op |-> "LockSet::merge",
                   ab |-> Merge(lat_in.a, lat_in.b),
                   ba |-> Merge(lat_in.b, lat_in.a),
                   aa |-> Merge(lat_in.a, lat_in.a),
                   ab_c |-> Merge(Merge(lat_in.a, lat_in.b), lat_in.c),
                   a_bc |-> Merge(lat_in.a, Merge(lat_in.b, lat_in.c)),
                   a_empty |-> Merge(lat_in.a, NewLockSet),
                   empty_a |-> Merge(NewLockSet, lat_in.a),
                   changed |-> MergeChanged(lat_in.a, lat_in.b)]
    /\ pc' = "lattice_done"
    /\ UNCHANGED LatRest

\* the analyzer of a function f whose local _1 is a guard of L and whose
\* callee h has exit_h as its exit lockset for the call at f:1
LatAnalyzer(exit_h) ==
    [p |-> "two_callers", func_def_id |-> "f", call_context |-> Default,
     lockmap |-> (1 :> "L"), entry_lockset |-> NewLockSet,
     analyzed_functions |->
        ("h" :> [NewFunctionLockSet("h", NewLockSet) EXCEPT
                    !.exit_lockset = (Place(CallSite("f", 1)) :> exit_h)])]

LatFx == [func_lock_info |-> NewFunctionLockSet("f", NewLockSet), callsites |-> EmptyMap]

\* the terminators at f:1: a lock acquisition, a call of the analysed h, a
\* call of a function without summary, an indirect call, the drop of the
\* guard, the drop of another local, and the terminators without an arm
LatTerminators ==
    {Call("ext_lock", 1, 2), Call("h", 2, 2), Call("a", 2, 2), Call(Unresolved, 2, 2),
     Drop(1, 2), Drop(2, 2), Return, Goto(2), SwitchInt(<<2, 3>>)}

\* apply_primary_terminator_effect on the states a and b
ApplyLockSetTransfer ==
    /\ pc = "lattice" /\ lat_in.kind = "LockSet"
    /\ \E t \in LatTerminators :
        LET an == LatAnalyzer(lat_in.c)
            ra == apply_primary_terminator_effect(an, LatFx, lat_in.a, t, 1)
            rb == apply_primary_terminator_effect(an, LatFx, lat_in.b, t, 1)
        IN  lat_out' = [op |-> "lockset transfer", t |-> t,
                        Ta |-> ra.state, Tb |-> rb.state,
                        exit_a |-> ra.fx.func_lock_info.exit_lockset,
                        exit_b |-> rb.fx.func_lock_info.exit_lockset]
    /\ pc' = "lattice_done"
    /\ UNCHANGED LatRest

\* an analyzer of f with guards _1 of L and _3 of M; h has exit locksets for
\* the call site f:1 and for two other contexts, k for other contexts only
LatCallAnalyzer(exit_here, exit_other) ==
    [p |-> "two_callers", func_def_id |-> "f", call_context |-> Default,
     lockmap |-> (1 :> "L" @@ 3 :> "M"), entry_lockset |-> NewLockSet,
     analyzed_functions |->
        ("h" :> [NewFunctionLockSet("h", NewLockSet) EXCEPT
                    !.exit_lockset = (Place(CallSite("f", 1)) :> exit_here
                                      @@ Default :> exit_other
                                      @@ Place(CallSite("f", 0)) :> exit_other)]
         @@ "k" :> [NewFunctionLockSet("k", NewLockSet) EXCEPT
                    !.exit_lockset = (Default :> exit_other
                                      @@ Place(CallSite("f", 0)) :> exit_other)])]

\* the call terminators at f:1: acquisitions of L and of M (by an external
\* and by the analysed function h), calls of h, of k, of a function without
\* summary, and indirect calls
LatCallTerminators ==
    {Call("ext_lock", 1, 2), Call("ext_lock", 3, 2), Call("h", 3, 2), Call("h", 2, 2),
     Call("k", 2, 2), Call("a", 2, 2), Call(Unresolved, 2, 2), Call(Unresolved, 1, 2)}

\* apply_primary_terminator_effect of a call terminator on the state a, with
\* c the exit of h for this call site and b the exits of the other contexts
ApplyCallTransfer ==
    /\ pc = "lattice" /\ lat_in.kind = "LockSet"
    /\ \E t \in LatCallTerminators :
        LET an == LatCallAnalyzer(lat_in.c, lat_in.b)
            r == apply_primary_terminator_effect(an, LatFx, lat_in.a, t, 1)
        IN  lat_out' = [op |-> "call transfer", t |-> t, out |-> r.state,
                        lock_operations |-> r.fx.func_lock_info.lock_operations,
                        callsites |-> r.fx.callsites]
    /\ pc' = "lattice_done"
    /\ UNCHANGED LatRest

\* analyze_interrupt_set on the call graph
ApplyIrqOrder ==
    /\ pc = "lattice" /\ lat_in.kind = "CallGraph"
    /\ lat_out' = [op |-> "irq order", result |-> AnalyzeInterruptSetOrder(lat_in.cg)]
    /\ pc' = "lattice_done"
    /\ UNCHANGED LatRest

LatApis == {"irq_enable", "irq_disable"}

\* the IrqState terminators: a call of an annotated function, of the cached
\* h, of the uncached a, of a function without MIR, an indirect call, and
\* terminators that are no calls
LatIrqTerminators ==
    {Call("irq_enable", 2, 2), Call("irq_disable", 2, 2), Call("h", 2, 2), Call("a", 2, 2),
     Call("ext", 2, 2), Call(Unresolved, 2, 2), Drop(1, 2), Return, Goto(2)}

LatIrqInfo(f, exit) ==
    [def_id |-> f, exit_irq_state |-> exit, pre_bb_irq_states |-> EmptyMap,
     interrupt_enable_sites |-> <<>>]

\* FuncIsrAnalyzer::apply_primary_terminator_effect on the states a and b,
\* with c the cached exit state of h and any annotation of the two apis
ApplyIrqTransfer ==
    /\ pc = "lattice" /\ lat_in.kind = "IrqState"
    /\ \E t \in LatIrqTerminators, en \in SUBSET LatApis, dis \in SUBSET LatApis :
        LET isr == [p |-> "two_callers", enable_interrupt_apis |-> en,
                    disable_interrupt_apis |-> dis]
            analyzed == ("h" :> LatIrqInfo("h", lat_in.c))
        IN  lat_out' = [op |-> "irq transfer", t |-> t, enable |-> en, disable |-> dis,
                        cached |-> DOMAIN analyzed,
                        Ta |-> IrqTerminatorEffect(isr, analyzed, lat_in.a, t),
                        Tb |-> IrqTerminatorEffect(isr, analyzed, lat_in.b, t)]
    /\ pc' = "lattice_done"
    /\ UNCHANGED LatRest

\* analyze_function_interrupt_set past the callees: the fixed point over the
\* body of f and the FuncIrqInfo read off it, with the callees in D cached
\* with exit state c
ApplyIrqFunction ==
    /\ pc = "lattice" /\ lat_in.kind = "IrqState" /\ lat_in.a = lat_in.b
    /\ \E p \in Programs :
        \E f \in Funcs(p), D \in SUBSET (Funcs(p)) :
            LET isr == [p |-> p, enable_interrupt_apis |-> Program(p).enable,
                        disable_interrupt_apis |-> Program(p).disable]
                analyzed == [g \in D \ {f} |-> LatIrqInfo(g, lat_in.c)]
            IN  lat_out' = [op |-> "irq function", p |-> p, f |-> f,
                            cached |-> D \ {f},
                            info |-> BuildFuncIrqInfo(isr, analyzed, f)]
    /\ pc' = "lattice_done"
    /\ UNCHANGED LatRest

\* LockMapBuilder::collect on a function body
ApplyLockMapBuilder ==
    /\ pc = "lattice" /\ lat_in.kind = "Body"
    /\ lat_out' = [op |-> "LockMapBuilder::collect",
                   result |-> LockMapBuilderCollect(lat_in.items, LatGuards)]
    /\ pc' = "lattice_done"
    /\ UNCHANGED LatRest

NextLattice ==
    \/ ApplyLockStateJoin
    \/ ApplyIrqStateJoin
    \/ ApplyMerge
    \/ ApplyLockSetTransfer
    \/ ApplyCallTransfer
    \/ ApplyIrqTransfer
    \/ ApplyIrqFunction
    \/ ApplyIrqOrder
    \/ ApplyLockMapBuilder

SpecLattice == InitLattice /\ [][NextLattice]_vars

----------------------------------------------------------------------------
(* Properties *)

GraphEdges == {graph.edges[i] : i \in DOMAIN graph.edges}

\* the lock of the node with index idx
NodeLock(idx) == graph.nodes[idx + 1]

IsCall(e) == e.weight.edge_type.kind = "Call"
IsInterrupt(e) == e.weight.edge_type.kind = "Interrupt"

\* e goes from the node of lock a to the node of lock b
FromTo(e, a, b) == NodeLock(e.source) = a /\ NodeLock(e.target) = b

\* the edges the reporter returned
ReportedEdges == {graph.edges[r[2] + 1] : r \in reports}

\* the (lock, acquisition site) pairs a lockset holds with state MayHold
MayHoldSites(lockset) ==
    {ls \in UNION {{LockSite(l, cs) : cs \in lockset.lock_sites[l]} :
                        l \in DOMAIN lockset.lock_sites} :
        /\ ls.lock \in DOMAIN lockset.lock_states
        /\ lockset.lock_states[ls.lock] = "MayHold"}

LdgBuilt == pc \in {"report", "done"}

\* C1: scenario 1: when the pipeline has finished, exactly one self-cycle is
\* reported, and it is an Interrupt edge on node L whose old_lock_site lies in
\* t1 and whose new_lock_site lies in isr_foo
Scenario1ReportsOneSelfCycle ==
    (prog = "scenario1" /\ pc = "done") =>
        /\ Cardinality(reports) = 1
        /\ \A e \in ReportedEdges :
                /\ IsInterrupt(e)
                /\ FromTo(e, "L", "L")
                /\ e.weight.old_lock_site.site.caller_def_id = "t1"
                /\ e.weight.new_lock_site.site.caller_def_id = "isr_foo"

\* C2: scenario 2: the graph never holds an Interrupt edge whose interrupt
\* location is in t1 at or after the acquisition of L (block 1 of t1), and the
\* reporter reports nothing
Scenario2Clean ==
    prog = "scenario2" =>
        /\ \A e \in GraphEdges :
                ~(/\ IsInterrupt(e)
                  /\ e.weight.edge_type.site.caller_def_id = "t1"
                  /\ e.weight.edge_type.site.location >= 1)
        /\ reports = {}

\* scenario 2 has gone through the whole pipeline, isr_foo is an ISR that
\* acquires L, and t1 holds L at the call that follows the acquisition
Scenario2Analysed ==
    /\ prog = "scenario2" /\ pc = "done"
    /\ "isr_foo" \in program_isr_info.isr_funcs
    /\ LockSite("L", CallSite("isr_foo", 0)) \in program_lock_set["isr_foo"].lock_operations
    /\ LockSite("L", CallSite("t1", 1))
            \in MayHoldSites(program_lock_set["t1"].pre_bb_locksets[2])

\* stage a has returned before stage b returns
StageBefore(a, b) ==
    \E i, j \in DOMAIN stage_log : i < j /\ stage_log[i] = a /\ stage_log[j] = b

\* C3: when DeadlockDetector::run returns, the five stages have run, each
\* after the stages it depends on, and the reporter has examined the graph
DetectorRunsAllStages ==
    pc = "detector_returned" =>
        /\ StageBefore("LockCollector", "LockSetAnalyzer")
        /\ StageBefore("LockSetAnalyzer", "LDGConstructor")
        /\ StageBefore("IsrAnalyzer", "LDGConstructor")
        /\ StageBefore("LDGConstructor", "DeadlockReporter")
        /\ reports = self_cycle_node(graph)

\* C4: the reporter's result holds an entry (node, edge) exactly for the edges
\* that are Interrupt edges with source node = target node; no Call edge and
\* no edge between two different nodes is reported
ReporterReportsInterruptSelfLoops ==
    pc = "graph_reported" =>
        /\ \A i \in DOMAIN graph.edges :
                (\E r \in reports : r[2] = i - 1)
                    <=> (IsInterrupt(graph.edges[i])
                         /\ graph.edges[i].source = graph.edges[i].target)
        /\ \A r \in reports :
                /\ r[2] + 1 \in DOMAIN graph.edges
                /\ r[1] = graph.edges[r[2] + 1].source

\* the reporter has run on a graph with an Interrupt self-loop, a Call
\* self-loop and an Interrupt edge between two nodes
ReporterSawAllKinds ==
    /\ pc = "graph_reported"
    /\ reports # {}
    /\ \E e \in GraphEdges : IsCall(e) /\ e.source = e.target
    /\ \E e \in GraphEdges : IsInterrupt(e) /\ e.source # e.target

\* C5: after LDG construction, for every location of every function whose
\* block-entry irq state is not MustBeDisabled, every lock operation n of an
\* ISR function and every site o of a lock held MayHold at the block entry,
\* the graph holds an Interrupt edge n.lock -> held lock with
\* (new_lock_site, old_lock_site) = (n, o); and no Interrupt edge comes from a
\* location whose block-entry irq state is MustBeDisabled
InterruptEdgeRule ==
    LdgBuilt =>
        /\ \A f \in (DOMAIN program_lock_set) \cap (DOMAIN program_isr_info.func_irq_infos) :
           \A loc \in Blocks(prog, f) :
                program_isr_info.func_irq_infos[f].pre_bb_irq_states[loc] # "MustBeDisabled" =>
                    \A h \in program_isr_info.isr_funcs \cap DOMAIN program_lock_set :
                    \A n \in program_lock_set[h].lock_operations :
                    \A o \in MayHoldSites(program_lock_set[f].pre_bb_locksets[loc]) :
                        \E e \in GraphEdges :
                            /\ IsInterrupt(e)
                            /\ FromTo(e, n.lock, o.lock)
                            /\ e.weight.new_lock_site = n
                            /\ e.weight.old_lock_site = o
        /\ \A e \in GraphEdges :
                IsInterrupt(e) =>
                    program_isr_info.func_irq_infos[e.weight.edge_type.site.caller_def_id]
                        .pre_bb_irq_states[e.weight.edge_type.site.location]
                            # "MustBeDisabled"

\* C6: after LDG construction, for every lock operation (new_lock, site) of
\* every function and every site of a lock held MayHold at the entry of the
\* block of site, the graph holds an edge new_lock -> held tagged Call(site);
\* and every Call edge is such an edge, so a lock that is MustNotHold or
\* Bottom there gives none
CallEdgeRuleLocalAcquisitions ==
    LdgBuilt =>
        /\ \A f \in DOMAIN program_lock_set :
           \A n \in program_lock_set[f].lock_operations :
           \A o \in MayHoldSites(program_lock_set[f].pre_bb_locksets[n.site.location]) :
                \E e \in GraphEdges :
                    /\ e.weight.edge_type = CallEdge(n.site)
                    /\ FromTo(e, n.lock, o.lock)
                    /\ e.weight.new_lock_site = n
                    /\ e.weight.old_lock_site = o
        /\ \A e \in GraphEdges :
                IsCall(e) =>
                    LET site == e.weight.edge_type.site
                        info == program_lock_set[site.caller_def_id]
                    IN  /\ e.weight.new_lock_site \in info.lock_operations
                        /\ e.weight.new_lock_site.site = site
                        /\ e.weight.old_lock_site
                                \in MayHoldSites(info.pre_bb_locksets[site.location])
                        /\ FromTo(e, e.weight.new_lock_site.lock, e.weight.old_lock_site.lock)

\* the graph of scenario 6 is built: M is acquired in d while L is held, and
\* the Call edge of that acquisition is in the graph
NestedAcquisitionEdgeBuilt ==
    /\ prog = "scenario6" /\ pc = "done"
    /\ LockSite("M", CallSite("d", 1)) \in program_lock_set["d"].lock_operations
    /\ LockSite("L", CallSite("d", 0))
            \in MayHoldSites(program_lock_set["d"].pre_bb_locksets[1])
    /\ \E e \in GraphEdges : IsCall(e) /\ FromTo(e, "M", "L")

\* C7: after LDG construction, for every call terminator at loc in f that
\* resolves to an analysed callee g, every lock operation n of g and every
\* site o of a lock held MayHold in f at that terminator, the graph holds an
\* edge n.lock -> held lock tagged Call({caller: f, location: loc})
CallEdgeRuleCallTerminators ==
    LdgBuilt =>
        \A f \in DOMAIN program_lock_set :
        \A loc \in Blocks(prog, f) :
            LET t == Term(prog, f, loc)
            IN  (const_fn_def(t) # {} /\ t.callee \in DOMAIN program_lock_set) =>
                    \A n \in program_lock_set[t.callee].lock_operations :
                    \A o \in MayHoldSites(program_lock_set[f].pre_bb_locksets[loc]) :
                        \E e \in GraphEdges :
                            /\ e.weight.edge_type = CallEdge(CallSite(f, loc))
                            /\ FromTo(e, n.lock, o.lock)
                            /\ e.weight.new_lock_site = n
                            /\ e.weight.old_lock_site = o

\* C8: scenario 6: the finished pipeline has built a Call edge M -> L, an
\* Interrupt edge L -> L and an Interrupt edge L -> M, and has reported the
\* L -> L self-cycle
Scenario6Edges ==
    (prog = "scenario6" /\ pc = "done") =>
        /\ \E e \in GraphEdges : IsCall(e) /\ FromTo(e, "M", "L")
        /\ \E e \in GraphEdges : IsInterrupt(e) /\ FromTo(e, "L", "L")
        /\ \E e \in GraphEdges : IsInterrupt(e) /\ FromTo(e, "L", "M")
        /\ \E e \in ReportedEdges : FromTo(e, "L", "L")

Scenario3OneCallEdge ==
    (prog = "scenario3" /\ pc = "done") =>
        /\ Cardinality({i \in DOMAIN graph.edges :
                            IsCall(graph.edges[i]) /\ FromTo(graph.edges[i], "M", "L")}) = 1
        /\ reports = {}

\* the contexts recorded for f in the summaries of the lock-set analyzer
RecordedContexts(f) ==
    IF f \in DOMAIN analyzed_functions
    THEN (DOMAIN analyzed_functions[f].entry_lockset)
            \cup (DOMAIN analyzed_functions[f].exit_lockset)
    ELSE {}

\* C11: LockSetAnalyzer::run empties its worklist before the iteration
\* counter is spent: the counter is never zero while items are left
WorklistEmptiesBeforeFuse ==
    (pc = "lockset" /\ iteration_limit = 0) => worklist = <<>>

\* C12: scenario 5: the worklist of the recursive function r empties without
\* the counter running out, and the contexts recorded for r are Default and
\* the Place contexts of the two recursion call sites of r, nothing else
Scenario5Bounded ==
    prog = "scenario5" =>
        /\ (pc = "lockset" /\ iteration_limit = 0) => worklist = <<>>
        /\ RecordedContexts("r") \subseteq
                {Default, Place(CallSite("r", 1)), Place(CallSite("r", 2))}

\* the blocks of f that have t among their successors
Predecessors(p, f, t) == {b \in Blocks(p, f) : t \in SeqToSet(Successors(p, f, b))}

RECURSIVE StraightPath(_, _, _, _, _)
\* block b is reached from block a through blocks with one successor each,
\* in at most n steps
StraightPath(p, f, a, b, n) ==
    IF a = b THEN TRUE
    ELSE IF n = 0 \/ Len(Successors(p, f, a)) # 1 THEN FALSE
    ELSE StraightPath(p, f, Successors(p, f, a)[1], b, n - 1)

\* block b of f ends with the Drop of a guard local whose acquisition comes
\* before it in straight-line order, and the Drop is the only way into the
\* block that follows it
DropAfterAcquire(p, f, b) ==
    LET t == Term(p, f, b)
    IN  /\ t.kind = "Drop"
        /\ t.local \in DOMAIN Program(p).lockmap[f]
        /\ Predecessors(p, f, t.targets[1]) = {b}
        /\ \E a \in Blocks(p, f) :
                /\ a # b
                /\ const_fn_def(Term(p, f, a)) # {}
                /\ Term(p, f, a).local = t.local
                /\ StraightPath(p, f, a, b, Len(Program(p).body[f]))

\* C13: in every summary the lock-set analyzer has stored, the lockset at the
\* entry of the block that follows the Drop of a guard, acquired before it in
\* straight-line order, has the lock MustNotHold with no acquisition site
ReleaseCancelsAcquire ==
    \A f \in DOMAIN analyzed_functions :
    \A b \in Blocks(prog, f) :
        DropAfterAcquire(prog, f, b) =>
            LET lock == Program(prog).lockmap[f][Term(prog, f, b).local]
                after == analyzed_functions[f].pre_bb_locksets[Term(prog, f, b).targets[1]]
            IN  /\ lock \in DOMAIN after.lock_states
                /\ after.lock_states[lock] = "MustNotHold"
                /\ lock \in DOMAIN after.lock_sites
                /\ after.lock_sites[lock] = {}

\* d of scenario 6 is analysed: M is held at its Drop (block 2) and released
\* at the entry of block 3, L is held at its Drop (block 3) and released at
\* the entry of block 4
NestedGuardsReleased ==
    /\ prog = "scenario6" /\ pc = "done"
    /\ DropAfterAcquire(prog, "d", 2) /\ DropAfterAcquire(prog, "d", 3)
    /\ LockSite("M", CallSite("d", 1))
            \in MayHoldSites(analyzed_functions["d"].pre_bb_locksets[2])
    /\ analyzed_functions["d"].pre_bb_locksets[3].lock_states["M"] = "MustNotHold"
    /\ LockSite("L", CallSite("d", 0))
            \in MayHoldSites(analyzed_functions["d"].pre_bb_locksets[3])
    /\ analyzed_functions["d"].pre_bb_locksets[4].lock_states["L"] = "MustNotHold"

\* lockset a carries nothing that lockset b does not carry
LockSetLeq(a, b) == Merge(b, a) = b

\* C14: the entry lockset a callee f keeps for a context Place(cs) carries
\* only lock states and acquisition sites that call site cs has sent for f;
\* what another call site sent is never in it
ContextIsolation ==
    \A f \in DOMAIN analyzed_functions :
    \A ctx \in DOMAIN analyzed_functions[f].entry_lockset :
        ctx.tag = "Place" =>
            LET key == [func |-> f, context |-> ctx]
            IN  /\ key \in DOMAIN propagated
                /\ LockSetLeq(analyzed_functions[f].entry_lockset[ctx], propagated[key])

\* h of two_callers has an entry for each of its two call sites: the one of
\* a:1 holds L, the one of b:1 holds M
TwoContextsFilled ==
    /\ prog = "two_callers" /\ pc = "done"
    /\ MayHoldSites(analyzed_functions["h"].entry_lockset[Place(CallSite("a", 1))])
            = {LockSite("L", CallSite("a", 0))}
    /\ MayHoldSites(analyzed_functions["h"].entry_lockset[Place(CallSite("b", 1))])
            = {LockSite("M", CallSite("b", 0))}


\* the order of the IrqState lattice: a is below or equal b
IrqLeq(a, b) == IrqUnion(b, a) = b

\* C15: every terminator transfer function of the lock-set analysis (the
\* acquiring Call, the Call that merges the callee's exit lockset, Drop,
\* Return with the exit lockset it records, and the identity of the other
\* terminators) and the call transfer function of the irq-state analysis is
\* monotone: for states a below or equal b, T(a) is below or equal T(b).
TransfersMonotone ==
    /\ (lat_out.op = "lockset transfer" /\ LockSetLeq(lat_in.a, lat_in.b))
        => /\ LockSetLeq(lat_out.Ta, lat_out.Tb)
           /\ lat_out.t.kind = "Return"
                => LockSetLeq(lat_out.exit_a[Default], lat_out.exit_b[Default])
    /\ (lat_out.op = "irq transfer" /\ lat_out.t.kind = "Call"
            /\ IrqLeq(lat_in.a, lat_in.b))
        => IrqLeq(lat_out.Ta, lat_out.Tb)

\* an acquisition applied to two different comparable states gives two
\* different comparable states
AcquireOnComparableStates ==
    /\ lat_out.op = "lockset transfer"
    /\ lat_out.t = Call("ext_lock", 1, 2)
    /\ lat_in.a # lat_in.b
    /\ LockSetLeq(lat_in.a, lat_in.b)
    /\ lat_out.Ta # lat_out.Tb
    /\ LockSetLeq(lat_out.Ta, lat_out.Tb)


\* C16: LockState.join is a join-semilattice operation over Bottom,
\* MustNotHold and MayHold: idempotent, commutative, associative, with Bottom
\* as identity, and MayHold joined with MustNotHold in either order is MayHold.
LockStateJoinLaws ==
    lat_out.op = "LockState::join" =>
        /\ lat_out.aa = lat_in.a
        /\ lat_out.ab = lat_out.ba
        /\ lat_out.ab_c = lat_out.a_bc
        /\ lat_out.a_bottom = lat_in.a
        /\ lat_out.bottom_a = lat_in.a
        /\ {lat_in.a, lat_in.b} = {"MayHold", "MustNotHold"} => lat_out.ab = "MayHold"

\* MustNotHold has been joined with MayHold
MustNotHoldJoinedMayHold ==
    /\ lat_out.op = "LockState::join"
    /\ lat_in.a = "MustNotHold" /\ lat_in.b = "MayHold" /\ lat_in.c = "Bottom"
    /\ lat_out.ab = "MayHold" /\ lat_out.ba = "MayHold"

\* the position of an IrqState in the chain Bottom < MustBeDisabled < MayBeEnabled
IrqRank(x) ==
    CASE x = "Bottom" -> 0
      [] x = "MustBeDisabled" -> 1
      [] x = "MayBeEnabled" -> 2

\* C17: IrqState::union and the JoinSemiLattice::join built on it are
\* idempotent, commutative and associative with Bottom as identity, and the
\* join of two states is the higher of them in the chain
\* Bottom < MustBeDisabled < MayBeEnabled; join reports whether self changed.
IrqStateJoinLaws ==
    lat_out.op = "IrqState::union" =>
        /\ lat_out.aa = lat_in.a
        /\ lat_out.ab = lat_out.ba
        /\ lat_out.ab_c = lat_out.a_bc
        /\ lat_out.a_bottom = lat_in.a
        /\ lat_out.bottom_a = lat_in.a
        /\ lat_out.ab = IF IrqRank(lat_in.a) >= IrqRank(lat_in.b) THEN lat_in.a ELSE lat_in.b
        /\ lat_out.join.state = lat_out.ab
        /\ lat_out.join.changed = (IrqRank(lat_in.a) < IrqRank(lat_in.b))

\* MustBeDisabled has been joined with MayBeEnabled
DisabledJoinedEnabled ==
    /\ lat_out.op = "IrqState::union"
    /\ lat_in.a = "MustBeDisabled" /\ lat_in.b = "MayBeEnabled" /\ lat_in.c = "Bottom"
    /\ lat_out.ab = "MayBeEnabled" /\ lat_out.ba = "MayBeEnabled"
    /\ lat_out.join.changed

\* lock_states.get(l) and lock_sites.get(l), with what an absent key stands for
StateOf(ls, l) == IF l \in DOMAIN ls.lock_states THEN ls.lock_states[l] ELSE "Bottom"
SitesOf(ls, l) == IF l \in DOMAIN ls.lock_sites THEN ls.lock_sites[l] ELSE {}

\* C18: LockSet::merge is the join of a product lattice: the result is the
\* pointwise LockState.join of lock_states and the pointwise union of
\* lock_sites; merge is idempotent, commutative and associative, the empty
\* lock set is its identity, and it returns true exactly when the receiver
\* is not the same after the merge as before.
MergeLaws ==
    lat_out.op = "LockSet::merge" =>
        /\ DOMAIN lat_out.ab.lock_states =
                (DOMAIN lat_in.a.lock_states) \cup (DOMAIN lat_in.b.lock_states)
        /\ DOMAIN lat_out.ab.lock_sites =
                (DOMAIN lat_in.a.lock_sites) \cup (DOMAIN lat_in.b.lock_sites)
        /\ \A l \in LatLocks :
            /\ StateOf(lat_out.ab, l) = LockStateJoin(StateOf(lat_in.a, l), StateOf(lat_in.b, l))
            /\ SitesOf(lat_out.ab, l) = SitesOf(lat_in.a, l) \cup SitesOf(lat_in.b, l)
        /\ lat_out.aa = lat_in.a
        /\ lat_out.ab = lat_out.ba
        /\ lat_out.ab_c = lat_out.a_bc
        /\ lat_out.a_empty = lat_in.a
        /\ lat_out.empty_a = lat_in.a
        /\ lat_out.changed = (lat_out.ab # lat_in.a)

\* two lock sets that hold the lock at different sites have been merged
DifferentSitesMerged ==
    /\ lat_out.op = "LockSet::merge"
    /\ lat_in.a = [lock_states |-> ("L" :> "MayHold"), lock_sites |-> ("L" :> {CallSite("f", 0)})]
    /\ lat_in.b = [lock_states |-> ("L" :> "MustNotHold"), lock_sites |-> ("L" :> {CallSite("f", 1)})]
    /\ lat_out.ab.lock_states["L"] = "MayHold"
    /\ lat_out.ab.lock_sites["L"] = LatSites
    /\ lat_out.changed


\* C19: once IsrAnalyzer::run has returned, the ProgramIsrInfo it produced
\* holds a FuncIrqInfo for every function with MIR, with an IrqState for the
\* entry of every basic block of the function and an exit state.
IsrInfoForEveryFunction ==
    "IsrAnalyzer" \in SeqToSet(stage_log) =>
        \A f \in Funcs(prog) :
            /\ f \in DOMAIN program_isr_info.func_irq_infos
            /\ LET info == program_isr_info.func_irq_infos[f]
               IN  /\ DOMAIN info.pre_bb_irq_states = Blocks(prog, f)
                   /\ \A b \in Blocks(prog, f) : info.pre_bb_irq_states[b] \in IrqStates
                   /\ info.exit_irq_state \in IrqStates


\* the output state the irq-state analysis is to give at terminator t for
\* the input state: unchanged unless t is a call; at a call of a disable
\* api MustBeDisabled, of an enable api MayBeEnabled, and else the join
\* with the cached exit state of the callee where there is one
ExpectedIrqOut(enable, disable, cached, cached_exit, state, t) ==
    IF t.kind # "Call" THEN state
    ELSE IF t.callee \in disable THEN "MustBeDisabled"
    ELSE IF t.callee \in enable THEN "MayBeEnabled"
    ELSE IF t.callee \in cached THEN IrqUnion(state, cached_exit)
    ELSE state

\* C20: the irq-state analysis starts the entry block at Bottom; a terminator
\* that is no call leaves the state as it is; a call gives MayBeEnabled for
\* an enable api, MustBeDisabled for a disable api, and otherwise the join of
\* the input state with the cached exit state of the callee, or the input
\* state when nothing is cached; the exit state of the function is the join
\* of the block-end states of the blocks that end in Return.
IrqTransferAsSpecified ==
    /\ lat_out.op = "irq transfer" =>
        /\ lat_out.Ta = ExpectedIrqOut(lat_out.enable, lat_out.disable, lat_out.cached,
                                       lat_in.c, lat_in.a, lat_out.t)
        /\ lat_out.Tb = ExpectedIrqOut(lat_out.enable, lat_out.disable, lat_out.cached,
                                       lat_in.c, lat_in.b, lat_out.t)
    /\ lat_out.op = "irq function" =>
        LET p == lat_out.p
            f == lat_out.f
            pre == lat_out.info.pre_bb_irq_states
            at_end(b) == ExpectedIrqOut(Program(p).enable, Program(p).disable,
                                        lat_out.cached, lat_in.c, pre[b], Term(p, f, b))
        IN  /\ DOMAIN pre = Blocks(p, f)
            /\ pre[0] = "Bottom"
            /\ \A b \in Blocks(p, f) \ {0} :
                    pre[b] = JoinAll({at_end(q) : q \in Predecessors(p, f, b)})
            /\ lat_out.info.exit_irq_state =
                    JoinAll({at_end(b) : b \in {x \in Blocks(p, f) :
                                                   Term(p, f, x).kind = "Return"}})

\* the cached exit state MayBeEnabled of a callee has been joined into
\* MustBeDisabled and into Bottom at a call of that callee
CachedExitJoined ==
    /\ lat_out.op = "irq transfer"
    /\ lat_out.t = Call("h", 2, 2)
    /\ lat_out.enable = {"irq_enable"} /\ lat_out.disable = {"irq_disable"}
    /\ lat_in.a = "MustBeDisabled" /\ lat_in.b = "Bottom" /\ lat_in.c = "MayBeEnabled"
    /\ lat_out.Ta = "MayBeEnabled" /\ lat_out.Tb = "MayBeEnabled"


RECURSIVE CalleeClosure(_, _)
\* the functions reached from S along call edges, S included
CalleeClosure(p, S) ==
    LET next == S \cup UNION {SeqToSet(get_callees_defid(p, f)) : f \in S \cap Funcs(p)}
    IN  IF next = S THEN S ELSE CalleeClosure(p, next)

\* C21: the set isr_funcs the ISR analyzer produces is the transitive
\* closure of the call graph from the IsrEntry functions, and every lock
\* operation of a function in that closure is the new_lock_site of an
\* Interrupt edge when some location holds a lock with interrupts not
\* disabled.
IsrFuncsAreCalleeClosure ==
    LET closure == CalleeClosure(prog, Program(prog).isr_entries) \cap Funcs(prog)
    IN  /\ "IsrAnalyzer" \in SeqToSet(stage_log) =>
                program_isr_info.isr_funcs \cap Funcs(prog) = closure
        /\ LdgBuilt =>
            \A h \in closure \cap DOMAIN program_lock_set :
            \A n \in program_lock_set[h].lock_operations :
                (\E f \in (DOMAIN program_lock_set)
                            \cap (DOMAIN program_isr_info.func_irq_infos) :
                 \E loc \in Blocks(prog, f) :
                    /\ program_isr_info.func_irq_infos[f].pre_bb_irq_states[loc]
                            # "MustBeDisabled"
                    /\ MayHoldSites(program_lock_set[f].pre_bb_locksets[loc]) # {})
                => \E e \in GraphEdges : IsInterrupt(e) /\ e.weight.new_lock_site = n


\* the positions in graph_calls of the insert_interrupt_edge calls for the pair
InterruptCallsFor(new, old) ==
    {j \in DOMAIN graph_calls :
        /\ graph_calls[j].op = "insert_interrupt_edge"
        /\ graph_calls[j].new_lock_site = new
        /\ graph_calls[j].old_lock_site = old}

\* the Interrupt edges of the graph with the pair as their lock sites
InterruptEdgesFor(new, old) ==
    {i \in DOMAIN graph.edges :
        /\ IsInterrupt(graph.edges[i])
        /\ graph.edges[i].weight.new_lock_site = new
        /\ graph.edges[i].weight.old_lock_site = old}

\* the graph before call j
GraphBefore(j) == IF j = 1 THEN NewGraph ELSE graph_calls[j - 1].after

\* C22: after any sequence of insert_interrupt_edge and insert_normal_edge
\* calls the graph holds at most one Interrupt edge for each pair
\* (new_lock_site, old_lock_site); that edge carries the interrupt location
\* of the first insert_interrupt_edge call for the pair, and every later
\* insert_interrupt_edge call for the pair leaves the graph as it was.
InterruptEdgeFirstWins ==
    pc \in {"graph", "graph_reported"} =>
        \A new \in GraphLockSites, old \in GraphLockSites :
            LET calls == InterruptCallsFor(new, old)
                edges == InterruptEdgesFor(new, old)
            IN  /\ Cardinality(edges) <= 1
                /\ \A i \in edges :
                    /\ calls # {}
                    /\ graph.edges[i].weight.edge_type.site =
                            graph_calls[CHOOSE j \in calls : \A k \in calls : j <= k].location
                /\ \A j \in calls :
                    (\E k \in calls : k < j) => graph_calls[j].after = GraphBefore(j)

\* insert_interrupt_edge has been called twice for one pair with two
\* different interrupt locations, and once for another pair
PairInsertedTwice ==
    /\ pc = "graph"
    /\ Len(graph_calls) = 3
    /\ graph_calls[1].op = "insert_interrupt_edge"
    /\ graph_calls[2].op = "insert_interrupt_edge"
    /\ graph_calls[3].op = "insert_interrupt_edge"
    /\ graph_calls[1].new_lock_site = graph_calls[2].new_lock_site
    /\ graph_calls[1].old_lock_site = graph_calls[2].old_lock_site
    /\ graph_calls[1].location # graph_calls[2].location
    /\ graph_calls[3].new_lock_site # graph_calls[1].new_lock_site
    /\ Len(graph.edges) = 2
    /\ graph.edges[1].weight.edge_type.site = graph_calls[1].location

\* the LockSites that are an endpoint of some edge
EndpointSites == UNION {{e.weight.new_lock_site, e.weight.old_lock_site} : e \in GraphEdges}

\* C23: after any sequence of edge insertions no two nodes of the graph
\* carry the same LockInstance, the graph has a node for lock L exactly when
\* a LockSite over L is the new_lock_site or old_lock_site of some edge, and
\* every edge runs from the node of new_lock_site.lock to the node of
\* old_lock_site.lock.
NodesInternedByLock ==
    pc \in {"graph", "graph_reported"} =>
        /\ \A i, j \in DOMAIN graph.nodes : graph.nodes[i] = graph.nodes[j] => i = j
        /\ SeqToSet(graph.nodes) = {ls.lock : ls \in EndpointSites}
        /\ \A e \in GraphEdges :
            /\ e.source + 1 \in DOMAIN graph.nodes
            /\ e.target + 1 \in DOMAIN graph.nodes
            /\ FromTo(e, e.weight.new_lock_site.lock, e.weight.old_lock_site.lock)

\* three edges over two locks: L is an endpoint of all of them, with two
\* different sites, and the graph has two nodes
LockSharedByEdges ==
    /\ pc = "graph"
    /\ Len(graph.edges) = 3
    /\ Len(graph.nodes) = 2
    /\ \A e \in GraphEdges : "L" \in {e.weight.new_lock_site.lock, e.weight.old_lock_site.lock}
    /\ \E e \in GraphEdges : IsInterrupt(e)
    /\ \E e \in GraphEdges : IsCall(e)
    /\ Cardinality({ls \in EndpointSites : ls.lock = "L"}) = 2


\* C24: the lock collector fails on no function body: building the lock map
\* returns for every body, also for one with a call without arguments whose
\* destination is a local of a guard type, and a guard whose source is not
\* resolved is simply absent from the lock map.
LockMapBuilderNeverFails ==
    lat_out.op = "LockMapBuilder::collect" =>
        /\ lat_out.result.outcome = "returned"
        /\ DOMAIN lat_out.result.lockmap \subseteq LatGuards


\* the call site cs is a call terminator of its function that resolves to f
DispatchesTo(cs, f) ==
    /\ cs.caller_def_id \in Funcs(prog)
    /\ cs.location \in Blocks(prog, cs.caller_def_id)
    /\ const_fn_def(Term(prog, cs.caller_def_id, cs.location)) = {f}

\* C25: in every state of the lock-set worklist, every context Place(cs)
\* that is a key of the entry_lockset or the exit_lockset of a function f
\* names a call terminator: cs.location lies in cs.caller_def_id and is a
\* call whose resolved callee is f.
ContextsWellFormed ==
    \A f \in DOMAIN analyzed_functions :
    \A ctx \in (DOMAIN analyzed_functions[f].entry_lockset)
                \cup (DOMAIN analyzed_functions[f].exit_lockset) :
        ctx.tag = "Place" => DispatchesTo(ctx.site, f)

\* h of two_callers has an entry and an exit lockset under the contexts of
\* its two call sites
TwoPlaceContextsRecorded ==
    /\ prog = "two_callers"
    /\ "h" \in DOMAIN analyzed_functions
    /\ {Place(CallSite("a", 1)), Place(CallSite("b", 1))}
            \subseteq (DOMAIN analyzed_functions["h"].entry_lockset)
                        \cap (DOMAIN analyzed_functions["h"].exit_lockset)


RECURSIVE OneRunOfWorklist(_, _, _, _)
\* the summaries LockSetAnalyzer::run returns along one iteration order
OneRunOfWorklist(p, wl, limit, analyzed_fns) ==
    IF ~(limit > 0 /\ wl # <<>>) THEN analyzed_fns
    ELSE LET o == CHOOSE x \in IterationOutcomes(p, Program(p).lockmap, wl, analyzed_fns) :
                        TRUE
         IN  OneRunOfWorklist(p, o.worklist, limit - 1, o.analyzed_functions)

OneProgramLockSet(p) ==
    OneRunOfWorklist(p, [i \in DOMAIN Program(p).funcs |->
                            WorkItem(Program(p).funcs[i], Default, NewLockSet)],
                     FuseFactor * Len(Program(p).funcs), EmptyMap)

RECURSIVE InsertAll(_, _, _)
\* the edges of a set inserted one after the other in one order
InsertAll(g, edges, interrupt) ==
    IF edges = {} THEN g
    ELSE LET e == CHOOSE x \in edges : TRUE
         IN  InsertAll(IF interrupt
                       THEN insert_interrupt_edge(g, e.new, e.old, e.callsite)
                       ELSE insert_normal_edge(g, e.new, e.old, e.callsite),
                       edges \ {e}, interrupt)

RECURSIVE OneRunOfLdg(_, _, _, _, _)
\* the graph LDGConstructor::run builds from pls along one iteration order
OneRunOfLdg(p, pls, isr_info, todo, g) ==
    IF todo = <<>> THEN g
    ELSE OneRunOfLdg(p, pls, isr_info, Tail(todo),
            InsertAll(InsertAll(g, NormalEdgeCollect(pls, Head(todo)), FALSE),
                      InterruptEdgeCollect(p, pls, isr_info, Head(todo)), TRUE))

\* endpoints, lock sites and kind of the edges of a graph
EdgeKinds(g) ==
    {[kind |-> g.edges[i].weight.edge_type.kind,
      new_lock_site |-> g.edges[i].weight.new_lock_site,
      old_lock_site |-> g.edges[i].weight.old_lock_site,
      source |-> g.nodes[g.edges[i].source + 1],
      target |-> g.nodes[g.edges[i].target + 1]] : i \in DOMAIN g.edges}

\* C26: the ProgramLockSet and the set of LDG edges (endpoints, lock sites,
\* kinds) produced for a program do not depend on the iteration order of the
\* hash maps and hash sets inside a stage: whatever order a run takes, its
\* results are those of the run along one fixed order.
ResultsIndependentOfIterationOrder ==
    LdgBuilt =>
        /\ program_lock_set = OneProgramLockSet(prog)
        /\ EdgeKinds(graph) =
                EdgeKinds(OneRunOfLdg(prog, OneProgramLockSet(prog), program_isr_info,
                                      Program(prog).funcs, NewGraph))


RECURSIVE MergeAll(_)
\* the join of a set of locksets
MergeAll(S) ==
    IF S = {} THEN NewLockSet
    ELSE LET x == CHOOSE y \in S : TRUE IN Merge(MergeAll(S \ {x}), x)

RECURSIVE PathJoin(_, _, _, _)
\* the join, over the control-flow paths of at most n edges from the entry
\* block of f to block b, of the terminator transfer functions applied along
\* the path to the entry lockset of f under ctx, with the summaries reached
PathJoin(f, ctx, b, n) ==
    LET an == [p |-> prog, func_def_id |-> f, call_context |-> ctx,
               lockmap |-> global_lockmap[f],
               entry_lockset |-> analyzed_functions[f].entry_lockset,
               analyzed_functions |-> analyzed_functions]
        fx == [func_lock_info |-> analyzed_functions[f], callsites |-> EmptyMap]
        through(q) == apply_primary_terminator_effect(
                            an, fx, PathJoin(f, ctx, q, n - 1), Term(prog, f, q), q).state
        arriving == IF n = 0 THEN NewLockSet
                    ELSE MergeAll({through(q) : q \in Predecessors(prog, f, b)})
    IN  IF b = 0 THEN Merge(initialize_start_block(an), arriving) ELSE arriving

WorklistEmptied ==
    /\ pc \notin {"isr", "lock_collect", "lockset_seed", "detector_returned"}
    /\ worklist = <<>>

\* C27: when the worklist has emptied, for every function f, every context
\* ctx of f's entry_lockset and every basic block b, pre_bb_locksets[b] of f
\* is at least the join over all control-flow paths from the entry block to
\* b of the terminator transfer functions applied to entry_lockset[ctx].
PreBbLocksetsCoverEveryContext ==
    (WorklistEmptied /\ prog \in Programs) =>
        \A f \in DOMAIN analyzed_functions :
        \A ctx \in DOMAIN analyzed_functions[f].entry_lockset :
        \A b \in Blocks(prog, f) :
            LockSetLeq(PathJoin(f, ctx, b, Cardinality(Blocks(prog, f))),
                       analyzed_functions[f].pre_bb_locksets[b])


\* the entry lockset cached for f under ctx, empty where there is none
CachedEntry(analyzed_fns, f, ctx) ==
    IF f \in DOMAIN analyzed_fns /\ ctx \in DOMAIN analyzed_fns[f].entry_lockset
    THEN analyzed_fns[f].entry_lockset[ctx]
    ELSE NewLockSet

\* an iteration of the worklist loop on an item of a function with a lock map
DequeueStep ==
    /\ pc = "lockset" /\ pc' = "lockset"
    /\ worklist # <<>>
    /\ iteration_limit' = iteration_limit - 1
    /\ Head(worklist).func \in DOMAIN global_lockmap

\* C28: whenever the worklist loop dequeues an item (f, ctx, delta) of a
\* function with a lock map, the entry lockset of f under ctx that the
\* analysis starts from and that is cached afterwards is at least delta
\* joined with the entry lockset cached for (f, ctx) before, also when
\* nothing was cached for (f, ctx).
DequeueMergesDelta ==
    [][DequeueStep =>
        LET item == Head(worklist)
        IN  /\ item.func \in DOMAIN analyzed_functions'
            /\ item.context \in DOMAIN analyzed_functions'[item.func].entry_lockset
            /\ LockSetLeq(Merge(CachedEntry(analyzed_functions, item.func, item.context),
                                item.lockset),
                          analyzed_functions'[item.func].entry_lockset[item.context])]_vars


\* the items the step has pushed to the back of the worklist
Pushed == {worklist'[i] : i \in Len(worklist) .. Len(worklist')}

\* the call sites of f with a resolved callee
ResolvedCallSites(f) ==
    {loc \in Blocks(prog, f) : const_fn_def(Term(prog, f, loc)) # {}}

\* C29: after the analysis of the dequeued function f, for every call site
\* loc of f with resolved callee g whose block-entry lockset differs from
\* the entry lockset cached for g under Place(f, loc), the item
\* (g, Place(f, loc), block-entry lockset at loc) is pushed: one item for
\* each such call site, also for several call sites of one callee.
CalleeItemPerCallSite ==
    [][DequeueStep =>
        LET f == Head(worklist).func
        IN  \A loc \in ResolvedCallSites(f) :
                LET g == Term(prog, f, loc).callee
                    ctx == Place(CallSite(f, loc))
                    entry == analyzed_functions'[f].pre_bb_locksets[loc]
                IN  entry # CachedEntry(analyzed_functions', g, ctx)
                        => WorkItem(g, ctx, entry) \in Pushed]_vars


\* the functions with a call site that resolves to g
Callers(g) ==
    {f \in Funcs(prog) : \E loc \in ResolvedCallSites(f) : Term(prog, f, loc).callee = g}

\* the step has changed the exit lockset of the function it analysed
ExitLocksetChanged(g) ==
    \/ g \notin DOMAIN analyzed_functions
    \/ analyzed_functions'[g].exit_lockset # analyzed_functions[g].exit_lockset

\* the contexts of the items the analysis of g pushes for its own callees
CalleeContexts(g) == {Place(CallSite(g, loc)) : loc \in ResolvedCallSites(g)}

PendingFunctions == {worklist[i].func : i \in DOMAIN worklist}

\* LockSetAnalyzer::run has returned with the fuse spent and items left
FuseTripped ==
    /\ "LockSetAnalyzer" \in SeqToSet(stage_log)
    /\ iteration_limit = 0
    /\ worklist # <<>>

\* C31: the worklist loop dequeues at most FuseFactor times the number of
\* seeded functions; when run returns with the fuse spent and items left, a
\* warning naming the pending functions has been logged and the result is
\* the summaries computed so far.
FuseWarnsAndReturnsAsIs ==
    /\ iteration_limit \in 0 .. FuseFactor * Cardinality(Funcs(prog))
    /\ FuseTripped =>
        /\ \E w \in warnings : w.pending = PendingFunctions
        /\ program_lock_set = analyzed_functions


\* a call transfer was applied to a resolved call whose destination is a guard
AcquisitionApplied ==
    /\ lat_out.op = "call transfer"
    /\ const_fn_def(lat_out.t) # {}
    /\ lat_out.t.local \in DOMAIN LatCallAnalyzer(lat_in.c, lat_in.b).lockmap

PlainCallApplied ==
    /\ lat_out.op = "call transfer"
    /\ ~AcquisitionApplied

\* C33: after a call at f:1 of a resolved callee whose destination is no
\* guard, the state is the input joined with the exit lockset the callee has
\* for the context Place(f:1), whatever it has for other contexts; for a
\* callee without summary or without an exit for that context, and for an
\* unresolved call target, the state is the input.
PlainCallTransfer ==
    PlainCallApplied =>
        LET t == lat_out.t
        IN  CASE const_fn_def(t) = {} -> lat_out.out = lat_in.a
              [] t.callee = "h" -> lat_out.out = Merge(lat_in.a, lat_in.c)
              [] OTHER -> lat_out.out = lat_in.a

\* h was called with an exit for this call site that changes the state and
\* exits for other contexts that would change it otherwise
ExitOfThisContextJoined ==
    /\ PlainCallApplied
    /\ lat_out.t = Call("h", 2, 2)
    /\ lat_out.out # lat_in.a
    /\ Merge(lat_in.a, lat_in.b) # Merge(lat_in.a, lat_in.c)
    /\ Merge(Merge(lat_in.a, lat_in.b), lat_in.c) # Merge(lat_in.a, lat_in.c)


\* C34: the loop of LockMapBuilder::run that follows the dataflow map from a
\* local stops for every function body, also for a body whose dataflow map
\* has a cycle of locals none of which has a lock in the direct map.
GuardResolutionTerminates ==
    lat_out.op = "LockMapBuilder::collect" => lat_out.result.outcome # "no return"


\* the direct map and the dataflow map of a body, as the two visitors build
\* them for a function without guard locals
MapsOfBody(items) == LockMapBuilderVisitBody(NewLockMapBuilder({}), items)

RECURSIVE ChainLock(_, _, _)
\* the lock of the first local of the direct map on the dataflow chain from
\* x, "None" when the chain has none within n steps
ChainLock(b, x, n) ==
    IF x \in DOMAIN b.lockmap THEN b.lockmap[x]
    ELSE IF n = 0 \/ x \notin DOMAIN b.local_dataflow_map THEN "None"
    ELSE ChainLock(b, b.local_dataflow_map[x], n - 1)

\* the guards with a chain to a lock, with that lock
ClosureOnGuards(items, guards) ==
    LET b == MapsOfBody(items)
        n == Cardinality(DOMAIN b.local_dataflow_map)
    IN  [x \in {g \in guards : ChainLock(b, g, n) # "None"} |-> ChainLock(b, x, n)]

\* C35: for every function body LockMapBuilder::collect returns the map that
\* takes a local to a lock exactly when the local is a guard and the
\* dataflow chain from it (zero or more steps) reaches a local of the direct
\* map with that lock: every key is a guard, a guard without chain is absent.
GuardResolutionResult ==
    lat_out.op = "LockMapBuilder::collect" =>
        /\ lat_out.result.outcome = "returned"
        /\ lat_out.result.lockmap = ClosureOnGuards(lat_in.items, LatGuards)


RECURSIVE CgReach(_, _, _)
\* the functions reached from the set S by at most n call edges
CgReach(cg, S, n) ==
    IF n = 0 THEN S
    ELSE CgReach(cg, S \cup UNION {SeqToSet(cg.callees[f]) : f \in S}, n - 1)

\* the call edge f -> g lies on a cycle of the call graph
OnCycle(cg, f, g) == f \in CgReach(cg, {g}, Cardinality(CgFuncs))

DerivedInterruptTriples ==
    UNION {InterruptEdgeCollect(prog, program_lock_set, program_isr_info, f) :
            f \in Funcs(prog)}

\* C37: once the graph is built, it has an Interrupt edge with the lock
\* sites (new_lock_site, old_lock_site) of every triple the interrupt edge
\* collector has derived, also when a Call edge with the same two lock sites
\* was inserted before.
InterruptEdgesIndependentOfCallEdges ==
    LdgBuilt =>
        \A tr \in DerivedInterruptTriples :
            \E e \in GraphEdges :
                /\ IsInterrupt(e)
                /\ e.weight.new_lock_site = tr.new
                /\ e.weight.old_lock_site = tr.old


\* the functions without an entry in func_irq_infos
WithoutIrqInfo == Funcs(prog) \ DOMAIN program_isr_info.func_irq_infos

\* C38: for a function without an entry in func_irq_infos the interrupt edge
\* collector returns the empty set at every terminator, whatever locks are
\* held there and whatever ISR functions there are, and no Interrupt edge of
\* the graph has its interrupt location in such a function.
NoIrqInfoNoInterruptEdge ==
    /\ \A f \in WithoutIrqInfo : \A loc \in Blocks(prog, f) :
            InterruptVisitTerminator(program_lock_set, program_isr_info, f, loc) = {}
    /\ \A e \in GraphEdges :
            IsInterrupt(e) => e.weight.edge_type.site.caller_def_id \notin WithoutIrqInfo

\* the graph is built, and a function without FuncIrqInfo holds a lock at a
\* terminator while an ISR function has a lock operation
HeldLockWithoutIrqInfo ==
    /\ LdgBuilt
    /\ \E f \in WithoutIrqInfo \cap DOMAIN program_lock_set : \E loc \in Blocks(prog, f) :
            MayHoldSites(program_lock_set[f].pre_bb_locksets[loc]) # {}
    /\ \E h \in program_isr_info.isr_funcs \cap DOMAIN program_lock_set :
            program_lock_set[h].lock_operations # {}


\* C39: in every state, each function with a summary in the worklist cache
\* or in the ProgramLockSet has a pre_bb_locksets entry for each of its
\* basic blocks, and each function with a FuncIrqInfo has a
\* pre_bb_irq_states entry for each of its basic blocks: the lookups of the
\* interrupt edge collector find an entry at every terminator.
SummaryTablesTotal ==
    /\ \A f \in DOMAIN analyzed_functions :
            DOMAIN analyzed_functions[f].pre_bb_locksets = Blocks(prog, f)
    /\ \A f \in DOMAIN program_lock_set :
            DOMAIN program_lock_set[f].pre_bb_locksets = Blocks(prog, f)
    /\ \A f \in DOMAIN program_isr_info.func_irq_infos :
            DOMAIN program_isr_info.func_irq_infos[f].pre_bb_irq_states = Blocks(prog, f)

\* the graph is built from summaries of a function with a branch, held in
\* both tables
BranchingFunctionSummarised ==
    /\ LdgBuilt
    /\ \E f \in (DOMAIN program_lock_set) \cap (DOMAIN program_isr_info.func_irq_infos) :
            /\ \E b \in Blocks(prog, f) : Len(Successors(prog, f, b)) > 1
            /\ Cardinality(Blocks(prog, f)) > 4


\* every context of the map old is a context of the map new, with a lock
\* set at least as large
ContextsGrow(old, new) ==
    \A ctx \in DOMAIN old : ctx \in DOMAIN new /\ LockSetLeq(old[ctx], new[ctx])

\* the summary new of a function is at least the summary old
SummaryGrows(old, new) ==
    /\ ContextsGrow(old.entry_lockset, new.entry_lockset)
    /\ ContextsGrow(old.exit_lockset, new.exit_lockset)
    /\ old.lock_operations \subseteq new.lock_operations

\* C40: across the iterations of the worklist loop the saved summary of
\* every function only grows: its entry and exit lock set of every context
\* are at least what they were in the summary saved before, its lock
\* operations include the earlier ones, and no context key is removed.
SummariesOnlyGrow ==
    [][(pc = "lockset" /\ pc' = "lockset") =>
        \A f \in DOMAIN analyzed_functions :
            /\ f \in DOMAIN analyzed_functions'
            /\ SummaryGrows(analyzed_functions[f], analyzed_functions'[f])]_vars

\* a function has been saved again with a second context and an exit lock
\* set that holds a lock
SummaryOfTwoContextsSaved ==
    /\ pc = "lockset"
    /\ \E f \in DOMAIN analyzed_functions :
        /\ Cardinality(DOMAIN analyzed_functions[f].exit_lockset) > 1
        /\ \E ctx \in DOMAIN analyzed_functions[f].entry_lockset :
                analyzed_functions[f].entry_lockset[ctx] # NewLockSet
        /\ analyzed_functions[f].lock_operations # {}

====
